---------------------------- MODULE Spec2Model ----------------------------
(***************************************************************************)
(* The table-driven pushdown automaton of mcvoid/json and the Value         *)
(* accessors of json.go.  Runes are code points (integers), strings         *)
(* are sequences of runes, *Value pointers are addresses into a heap.       *)
(***************************************************************************)
EXTENDS Integers, Sequences, FiniteSets, TLC

(* ---- json.go: Type --------------------------------------------------- *)
Null == 0
Number == 1
Integer == 2
String == 3
Boolean == 4
Array == 5
Object == 6
numTypes == 7

(* ---- depth;            the model runs the automaton with a reduced     *)
(* ---- stack size (the source sets 1024); every formula is stated in     *)
(* ---- terms of depth, not of the number.                                *)
depth == 3

(* ---- character classes (columns of the transition table) ------------- *)
charSpace == 0
charLF___ == 1
charWhite == 2
charLCurB == 3
charRCurB == 4
charLSqrB == 5
charRSqrB == 6
charColon == 7
charComma == 8
charQuote == 9
charBacks == 10
charSlash == 11
charStar_ == 12
charPlus_ == 13
charMinus == 14
charPoint == 15
charZero_ == 16
charDigit == 17
charLow_A == 18
charLow_B == 19
charLow_C == 20
charLow_D == 21
charLow_E == 22
charLow_F == 23
charLow_L == 24
charLow_N == 25
charLow_R == 26
charLow_S == 27
charLow_T == 28
charLow_U == 29
charABCDF == 30
charCap_E == 31
charEtc__ == 32
charEof__ == 33
numClasses == 34
\* _________ in the source: the class of a byte no JSON text may contain
charErr__ == -1

(* ---- states (rows of the transition table) --------------------------- *)
sr == 0
ok == 1
ob == 2
ke == 3
co == 4
tc == 5
va == 6
ar == 7
st == 8
ec == 9
u1 == 10
u2 == 11
u3 == 12
u4 == 13
mi == 14
ze == 15
in == 16
fr == 17
fs == 18
e1 == 19
e2 == 20
e3 == 21
t1 == 22
t2 == 23
t3 == 24
f1 == 25
f2 == 26
f3 == 27
f4 == 28
n1 == 29
n2 == 30
n3 == 31
c1 == 32
c2 == 33
c3 == 34
c4 == 35
numStates == 36

(* ---- actions (negative table entries); xx is __ in the source -------- *)
xx == -1
ek == -2
ep == -3
es == -4
sa == -5
so == -6
ea == -7
aa == -8
eo == -9
ee == -10
ab == -11
an == -12
ai == -13
as == -14
sc == -15
ce == -16
cc == -17

(* ---- modes of the mode stack ----------------------------------------- *)
modeArray == 0
modeDone == 1
modeKey == 2
modeObject == 3

(* asciiClasses[r + 1] is the class of the ASCII code point r (0..127);    *)
(* entry 129 is the end-of-input class, which no byte reaches.             *)
asciiClasses == <<
  charErr__, charErr__, charErr__, charErr__, charErr__, charErr__, charErr__, charErr__,
  charErr__, charWhite, charLF___, charErr__, charErr__, charWhite, charErr__, charErr__,
  charErr__, charErr__, charErr__, charErr__, charErr__, charErr__, charErr__, charErr__,
  charErr__, charErr__, charErr__, charErr__, charErr__, charErr__, charErr__, charErr__,
  charSpace, charEtc__, charQuote, charEtc__, charEtc__, charEtc__, charEtc__, charEtc__,
  charEtc__, charEtc__, charStar_, charPlus_, charComma, charMinus, charPoint, charSlash,
  charZero_, charDigit, charDigit, charDigit, charDigit, charDigit, charDigit, charDigit,
  charDigit, charDigit, charColon, charEtc__, charEtc__, charEtc__, charEtc__, charEtc__,
  charEtc__, charABCDF, charABCDF, charABCDF, charABCDF, charCap_E, charABCDF, charEtc__,
  charEtc__, charEtc__, charEtc__, charEtc__, charEtc__, charEtc__, charEtc__, charEtc__,
  charEtc__, charEtc__, charEtc__, charEtc__, charEtc__, charEtc__, charEtc__, charEtc__,
  charEtc__, charEtc__, charEtc__, charLSqrB, charBacks, charRSqrB, charEtc__, charEtc__,
  charEtc__, charLow_A, charLow_B, charLow_C, charLow_D, charLow_E, charLow_F, charEtc__,
  charEtc__, charEtc__, charEtc__, charEtc__, charLow_L, charEtc__, charLow_N, charEtc__,
  charEtc__, charEtc__, charLow_R, charLow_S, charLow_T, charLow_U, charEtc__, charEtc__,
  charEtc__, charEtc__, charEtc__, charLCurB, charEtc__, charRCurB, charEtc__, charEtc__,
  charEof__
>>

(* stateTransitionTable[s + 1][c + 1]: a state (>= 0) or an action (< 0)   *)
stateTransitionTable == <<
  (* sr *) <<sr, sr, sr, so, xx, sa, xx, xx, xx, st, xx, sc, xx, xx, mi, xx, ze, in, xx, xx, xx, xx, xx, f1, xx, n1, xx, xx, t1, xx, xx, xx, xx, xx>>,
  (* ok *) <<ok, ok, ok, xx, eo, xx, ea, xx, ep, xx, xx, sc, xx, xx, xx, xx, xx, xx, xx, xx, xx, xx, xx, xx, xx, xx, xx, xx, xx, xx, xx, xx, xx, ok>>,
  (* ob *) <<ob, ob, ob, xx, ee, xx, xx, xx, xx, st, xx, sc, xx, xx, xx, xx, xx, xx, xx, xx, xx, xx, xx, xx, xx, xx, xx, xx, xx, xx, xx, xx, xx, xx>>,
  (* ke *) <<ke, ke, ke, xx, ee, xx, xx, xx, xx, st, xx, sc, xx, xx, xx, xx, xx, xx, xx, xx, xx, xx, xx, xx, xx, xx, xx, xx, xx, xx, xx, xx, xx, xx>>,
  (* co *) <<co, co, co, xx, xx, xx, xx, ek, xx, xx, xx, sc, xx, xx, xx, xx, xx, xx, xx, xx, xx, xx, xx, xx, xx, xx, xx, xx, xx, xx, xx, xx, xx, xx>>,
  (* tc *) <<tc, tc, tc, so, xx, sa, aa, xx, xx, st, xx, sc, xx, xx, mi, xx, ze, in, xx, xx, xx, xx, xx, f1, xx, n1, xx, xx, t1, xx, xx, xx, xx, xx>>,
  (* va *) <<va, va, va, so, xx, sa, xx, xx, xx, st, xx, sc, xx, xx, mi, xx, ze, in, xx, xx, xx, xx, xx, f1, xx, n1, xx, xx, t1, xx, xx, xx, xx, xx>>,
  (* ar *) <<ar, ar, ar, so, xx, sa, aa, xx, xx, st, xx, sc, xx, xx, mi, xx, ze, in, xx, xx, xx, xx, xx, f1, xx, n1, xx, xx, t1, xx, xx, xx, xx, xx>>,
  (* st *) <<st, xx, xx, st, st, st, st, st, st, es, ec, st, st, st, st, st, st, st, st, st, st, st, st, st, st, st, st, st, st, st, st, st, st, xx>>,
  (* ec *) <<xx, xx, xx, xx, xx, xx, xx, xx, xx, st, st, st, xx, xx, xx, xx, xx, xx, xx, st, xx, xx, xx, st, xx, st, st, xx, st, u1, xx, xx, xx, xx>>,
  (* u1 *) <<xx, xx, xx, xx, xx, xx, xx, xx, xx, xx, xx, xx, xx, xx, xx, xx, u2, u2, u2, u2, u2, u2, u2, u2, xx, xx, xx, xx, xx, xx, u2, u2, xx, xx>>,
  (* u2 *) <<xx, xx, xx, xx, xx, xx, xx, xx, xx, xx, xx, xx, xx, xx, xx, xx, u3, u3, u3, u3, u3, u3, u3, u3, xx, xx, xx, xx, xx, xx, u3, u3, xx, xx>>,
  (* u3 *) <<xx, xx, xx, xx, xx, xx, xx, xx, xx, xx, xx, xx, xx, xx, xx, xx, u4, u4, u4, u4, u4, u4, u4, u4, xx, xx, xx, xx, xx, xx, u4, u4, xx, xx>>,
  (* u4 *) <<xx, xx, xx, xx, xx, xx, xx, xx, xx, xx, xx, xx, xx, xx, xx, xx, st, st, st, st, st, st, st, st, xx, xx, xx, xx, xx, xx, st, st, xx, xx>>,
  (* mi *) <<xx, xx, xx, xx, xx, xx, xx, xx, xx, xx, xx, xx, xx, xx, xx, xx, ze, in, xx, xx, xx, xx, xx, xx, xx, xx, xx, xx, xx, xx, xx, xx, xx, xx>>,
  (* ze *) <<ok, ok, ok, xx, eo, xx, ea, xx, ep, xx, xx, sc, xx, xx, xx, fr, xx, xx, xx, xx, xx, xx, e1, xx, xx, xx, xx, xx, xx, xx, xx, e1, xx, ok>>,
  (* in *) <<ok, ok, ok, xx, eo, xx, ea, xx, ep, xx, xx, sc, xx, xx, xx, fr, in, in, xx, xx, xx, xx, e1, xx, xx, xx, xx, xx, xx, xx, xx, e1, xx, ok>>,
  (* fr *) <<xx, xx, xx, xx, xx, xx, xx, xx, xx, xx, xx, xx, xx, xx, xx, xx, fs, fs, xx, xx, xx, xx, xx, xx, xx, xx, xx, xx, xx, xx, xx, xx, xx, xx>>,
  (* fs *) <<ok, ok, ok, xx, eo, xx, ea, xx, ep, xx, xx, sc, xx, xx, xx, xx, fs, fs, xx, xx, xx, xx, e1, xx, xx, xx, xx, xx, xx, xx, xx, e1, xx, ok>>,
  (* e1 *) <<xx, xx, xx, xx, xx, xx, xx, xx, xx, xx, xx, xx, xx, e2, e2, xx, e3, e3, xx, xx, xx, xx, xx, xx, xx, xx, xx, xx, xx, xx, xx, xx, xx, xx>>,
  (* e2 *) <<xx, xx, xx, xx, xx, xx, xx, xx, xx, xx, xx, xx, xx, xx, xx, xx, e3, e3, xx, xx, xx, xx, xx, xx, xx, xx, xx, xx, xx, xx, xx, xx, xx, xx>>,
  (* e3 *) <<ok, ok, ok, xx, eo, xx, ea, xx, ep, xx, xx, sc, xx, xx, xx, xx, e3, e3, xx, xx, xx, xx, xx, xx, xx, xx, xx, xx, xx, xx, xx, xx, xx, ok>>,
  (* t1 *) <<xx, xx, xx, xx, xx, xx, xx, xx, xx, xx, xx, xx, xx, xx, xx, xx, xx, xx, xx, xx, xx, xx, xx, xx, xx, xx, t2, xx, xx, xx, xx, xx, xx, xx>>,
  (* t2 *) <<xx, xx, xx, xx, xx, xx, xx, xx, xx, xx, xx, xx, xx, xx, xx, xx, xx, xx, xx, xx, xx, xx, xx, xx, xx, xx, xx, xx, xx, t3, xx, xx, xx, xx>>,
  (* t3 *) <<xx, xx, xx, xx, xx, xx, xx, xx, xx, xx, xx, xx, xx, xx, xx, xx, xx, xx, xx, xx, xx, xx, ok, xx, xx, xx, xx, xx, xx, xx, xx, xx, xx, xx>>,
  (* f1 *) <<xx, xx, xx, xx, xx, xx, xx, xx, xx, xx, xx, xx, xx, xx, xx, xx, xx, xx, f2, xx, xx, xx, xx, xx, xx, xx, xx, xx, xx, xx, xx, xx, xx, xx>>,
  (* f2 *) <<xx, xx, xx, xx, xx, xx, xx, xx, xx, xx, xx, xx, xx, xx, xx, xx, xx, xx, xx, xx, xx, xx, xx, xx, f3, xx, xx, xx, xx, xx, xx, xx, xx, xx>>,
  (* f3 *) <<xx, xx, xx, xx, xx, xx, xx, xx, xx, xx, xx, xx, xx, xx, xx, xx, xx, xx, xx, xx, xx, xx, xx, xx, xx, xx, xx, f4, xx, xx, xx, xx, xx, xx>>,
  (* f4 *) <<xx, xx, xx, xx, xx, xx, xx, xx, xx, xx, xx, xx, xx, xx, xx, xx, xx, xx, xx, xx, xx, xx, ok, xx, xx, xx, xx, xx, xx, xx, xx, xx, xx, xx>>,
  (* n1 *) <<xx, xx, xx, xx, xx, xx, xx, xx, xx, xx, xx, xx, xx, xx, xx, xx, xx, xx, xx, xx, xx, xx, xx, xx, xx, xx, xx, xx, xx, n2, xx, xx, xx, xx>>,
  (* n2 *) <<xx, xx, xx, xx, xx, xx, xx, xx, xx, xx, xx, xx, xx, xx, xx, xx, xx, xx, xx, xx, xx, xx, xx, xx, n3, xx, xx, xx, xx, xx, xx, xx, xx, xx>>,
  (* n3 *) <<xx, xx, xx, xx, xx, xx, xx, xx, xx, xx, xx, xx, xx, xx, xx, xx, xx, xx, xx, xx, xx, xx, xx, xx, ok, xx, xx, xx, xx, xx, xx, xx, xx, xx>>,
  (* c1 *) <<xx, xx, xx, xx, xx, xx, xx, xx, xx, xx, xx, c2, c3, xx, xx, xx, xx, xx, xx, xx, xx, xx, xx, xx, xx, xx, xx, xx, xx, xx, xx, xx, xx, xx>>,
  (* c2 *) <<c2, ce, c2, c2, c2, c2, c2, c2, c2, c2, c2, c2, c2, c2, c2, c2, c2, c2, c2, c2, c2, c2, c2, c2, c2, c2, c2, c2, c2, c2, c2, c2, c2, cc>>,
  (* c3 *) <<c3, c3, c3, c3, c3, c3, c3, c3, c3, c3, c3, c3, c4, c3, c3, c3, c3, c3, c3, c3, c3, c3, c3, c3, c3, c3, c3, c3, c3, c3, c3, c3, c3, xx>>,
  (* c4 *) <<c3, c3, c3, c3, c3, c3, c3, c3, c3, c3, c3, ce, c4, c3, c3, c3, c3, c3, c3, c3, c3, c3, c3, c3, c3, c3, c3, c3, c3, c3, c3, c3, c3, xx>>
>>

(* ---- runes the model names --------------------------------------------- *)
LF == 10
SP == 32
QUOTE == 34
STAR == 42
PLUS == 43
COMMA == 44
MINUS == 45
POINT == 46
SLASH == 47
ZERO == 48
ONE == 49
TWO == 50
NINE == 57
COLON == 58
CAP_E == 69
LSQRB == 91
BACKS == 92
RSQRB == 93
LOW_A == 97
LOW_D == 100
LOW_E == 101
LOW_F == 102
LOW_L == 108
LOW_N == 110
LOW_R == 114
LOW_S == 115
LOW_T == 116
LOW_U == 117
LCURB == 123
RCURB == 125
\* unicode.ReplacementChar
ReplacementChar == 65533
\* runes outside ASCII: two and four bytes of UTF-8
LatinE == 233
Emoji == 128512

(* ---- float64 payloads ---------------------------------------------------*)
(* A float64 is kept as sign, decimal mantissa and decimal exponent with no  *)
(* trailing zero in the mantissa: exact for the short literals of the model. *)
RECURSIVE normFloat(_, _, _)
normFloat(neg, mant, exp) ==
  IF mant = 0 THEN [neg |-> neg, mant |-> 0, exp |-> 0]
  ELSE IF mant % 10 = 0 THEN normFloat(neg, mant \div 10, exp + 1)
  ELSE [neg |-> neg, mant |-> mant, exp |-> exp]

\* float64(i) of AsNumber
float64(i) == IF i < 0 THEN normFloat(TRUE, -i, 0) ELSE normFloat(FALSE, i, 0)

\* +Inf / -Inf, what ParseFloat returns for a value out of float64's range
infFloat(neg) == [neg |-> neg, mant |-> 0, exp |-> 1]

\* Go's == on float64: -0 equals 0
floatEq(a, b) == IF a.mant = 0 /\ a.exp = 0 THEN b.mant = 0 /\ b.exp = 0 ELSE a = b

(* ---- json.go: Value and pair ------------------------------------------- *)
\* &Value{}: the zero Value, which is tagged Null
zeroValue ==
  [jsonType |-> Null, numberValue |-> normFloat(FALSE, 0, 0), integerValue |-> 0,
   stringValue |-> <<>>, booleanValue |-> FALSE,
   arrayValue |-> <<>>, objectValue |-> <<>>]

pair(k, v) == [key |-> k, val |-> v]

(* ---- strconv ------------------------------------------------------------*)
IsDigit(c) == c \in 48..57

RECURSIVE digitsValue(_)
digitsValue(s) ==
  IF s = <<>> THEN 0
  ELSE digitsValue(SubSeq(s, 1, Len(s) - 1)) * 10 + (s[Len(s)] - ZERO)

RECURSIVE takeDigits(_)
takeDigits(s) ==
  IF s # <<>> /\ IsDigit(s[1]) THEN <<s[1]>> \o takeDigits(Tail(s)) ELSE <<>>

dropN(s, n) == SubSeq(s, n + 1, Len(s))

\* the width of the integers ParseInt is asked for
bitSize == 25

\* 1<<bitSize - 1, the largest unsigned integer of that width
maxVal == 2^bitSize - 1

\* strconv.ParseUint on a run of digits, n being the value of the digits
\* already read: the value, or maxVal and the range error
RECURSIVE ParseUint(_, _)
ParseUint(n, s) ==
  IF s = <<>> THEN [n |-> n, err |-> "nil"]
  ELSE IF n >= maxVal \div 10 + 1 THEN [n |-> maxVal, err |-> "range"]
  ELSE IF n * 10 + (s[1] - ZERO) > maxVal THEN [n |-> maxVal, err |-> "range"]
  ELSE ParseUint(n * 10 + (s[1] - ZERO), Tail(s))

\* strconv.ParseInt(s, 10, bitSize): the integer and the error; out of range
\* it gives the nearest bound and the range error
strconvParseInt(s) ==
  LET neg == s # <<>> /\ s[1] = MINUS
      body == IF s # <<>> /\ s[1] \in {MINUS, PLUS} THEN Tail(s) ELSE s
      un == ParseUint(0, body)
      cutoff == 2^(bitSize - 1)
  IN IF body = <<>> \/ takeDigits(body) # body THEN [i |-> 0, err |-> "syntax"]
     ELSE IF ~neg /\ un.n >= cutoff THEN [i |-> cutoff - 1, err |-> "range"]
     ELSE IF neg /\ un.n > cutoff THEN [i |-> 0 - cutoff, err |-> "range"]
     ELSE [i |-> IF neg THEN 0 - un.n ELSE un.n, err |-> "nil"]

\* val, err := strconv.ParseInt(...) with a caller that gives up on an error
ParseInt_strict(s) == IF strconvParseInt(s).err = "nil" THEN strconvParseInt(s).i ELSE 0

\* val, _ := strconv.ParseInt(p.buffer, 10, 64): the error is dropped by
\* every caller
ParseInt(s) == strconvParseInt(s).i

RECURSIVE numDigits(_)
numDigits(n) == IF n < 10 THEN 1 ELSE 1 + numDigits(n \div 10)

RECURSIVE leadDigit(_)
leadDigit(n) == IF n < 10 THEN n ELSE leadDigit(n \div 10)

\* the decimal exponent k of f = d.ddd * 10^k
magnitude(f) == f.exp + numDigits(f.mant) - 1

\* a value out of float64's range: +-Inf above 1.797e308, 0 below 2.47e-324
\* (decided by the decimal magnitude and, at the edge, the first digit)
floatRange(f) ==
  IF f.mant = 0 THEN f
  ELSE IF magnitude(f) > 308 THEN infFloat(f.neg)
  ELSE IF magnitude(f) = 308 /\ leadDigit(f.mant) > 1 THEN infFloat(f.neg)
  ELSE IF magnitude(f) < -324 THEN normFloat(f.neg, 0, 0)
  ELSE IF magnitude(f) = -324 /\ leadDigit(f.mant) < 2 THEN normFloat(f.neg, 0, 0)
  ELSE f

\* strconv.ParseFloat(s, 64) on the texts the automaton buffers, read part by
\* part: sign, integer digits ip, fraction digits fp, exponent digits ed
floatOf(neg, ip, fp, hasE, eneg, ed, rest) ==
  IF (ip = <<>> /\ fp = <<>>) \/ (hasE /\ ed = <<>>) \/ rest # <<>>
    THEN normFloat(FALSE, 0, 0)
  ELSE floatRange(normFloat(neg, digitsValue(ip \o fp),
                            (IF eneg THEN 0 - digitsValue(ed) ELSE digitsValue(ed)) - Len(fp)))

floatExponent(neg, ip, fp, s) ==
  IF s # <<>> /\ s[1] \in {LOW_E, CAP_E}
    THEN IF Len(s) >= 2 /\ s[2] \in {MINUS, PLUS}
           THEN floatOf(neg, ip, fp, TRUE, s[2] = MINUS, takeDigits(dropN(s, 2)),
                        dropN(s, 2 + Len(takeDigits(dropN(s, 2)))))
           ELSE floatOf(neg, ip, fp, TRUE, FALSE, takeDigits(Tail(s)),
                        dropN(s, 1 + Len(takeDigits(Tail(s)))))
    ELSE floatOf(neg, ip, fp, FALSE, FALSE, <<>>, s)

floatFraction(neg, ip, s) ==
  IF s # <<>> /\ s[1] = POINT
    THEN floatExponent(neg, ip, takeDigits(Tail(s)), dropN(s, 1 + Len(takeDigits(Tail(s)))))
    ELSE floatExponent(neg, ip, <<>>, s)

floatUnsigned(neg, s) == floatFraction(neg, takeDigits(s), dropN(s, Len(takeDigits(s))))

ParseFloat(s) ==
  floatUnsigned(s # <<>> /\ s[1] = MINUS,
                IF s # <<>> /\ s[1] \in {MINUS, PLUS} THEN Tail(s) ELSE s)

\* strconv.ParseBool
ParseBool(s) == s = <<LOW_T, LOW_R, LOW_U, LOW_E>>

\* strings.Replace(s, `\/`, `/`, -1)
RECURSIVE ReplaceEscapedSlash(_)
ReplaceEscapedSlash(s) ==
  IF s = <<>> THEN <<>>
  ELSE IF Len(s) >= 2 /\ s[1] = BACKS /\ s[2] = SLASH
    THEN <<SLASH>> \o ReplaceEscapedSlash(dropN(s, 2))
  ELSE <<s[1]>> \o ReplaceEscapedSlash(Tail(s))

unhex(c) ==
  IF c \in 48..57 THEN c - 48
  ELSE IF c \in 97..102 THEN c - 97 + 10
  ELSE IF c \in 65..70 THEN c - 65 + 10
  ELSE -1

\* strconv.UnquoteChar over the body of a double-quoted literal; ok is FALSE
\* for ErrSyntax
RECURSIVE unquoteBody(_)
unquoteBody(b) ==
  IF b = <<>> THEN [ok |-> TRUE, val |-> <<>>]
  ELSE IF b[1] = QUOTE \/ b[1] = LF THEN [ok |-> FALSE, val |-> <<>>]
  ELSE IF b[1] # BACKS THEN
    LET r == unquoteBody(Tail(b))
    IN [ok |-> r.ok, val |-> <<b[1]>> \o r.val]
  ELSE IF Len(b) < 2 THEN [ok |-> FALSE, val |-> <<>>]
  ELSE IF b[2] = LOW_U THEN
    IF Len(b) < 6 \/ \E i \in 3..6 : unhex(b[i]) < 0 THEN [ok |-> FALSE, val |-> <<>>]
    ELSE LET v == ((unhex(b[3]) * 16 + unhex(b[4])) * 16 + unhex(b[5])) * 16 + unhex(b[6])
             r == unquoteBody(dropN(b, 6))
         IN IF v \in 55296..57343 THEN [ok |-> FALSE, val |-> <<>>]
            ELSE [ok |-> r.ok, val |-> <<v>> \o r.val]
  ELSE LET c == CASE b[2] = 97 -> 7
                  [] b[2] = 98 -> 8
                  [] b[2] = 102 -> 12
                  [] b[2] = 110 -> 10
                  [] b[2] = 114 -> 13
                  [] b[2] = 116 -> 9
                  [] b[2] = 118 -> 11
                  [] b[2] = BACKS -> BACKS
                  [] b[2] = QUOTE -> QUOTE
                  [] OTHER -> -1
           r == unquoteBody(dropN(b, 2))
       IN IF c < 0 THEN [ok |-> FALSE, val |-> <<>>]
          ELSE [ok |-> r.ok, val |-> <<c>> \o r.val]

\* strconv.Unquote; the caller drops the error and keeps the (empty) value
Unquote(s) ==
  IF Len(s) < 2 \/ s[1] # QUOTE \/ s[Len(s)] # QUOTE THEN <<>>
  ELSE LET r == unquoteBody(SubSeq(s, 2, Len(s) - 1))
       IN IF r.ok THEN r.val ELSE <<>>

\* the byte width bufio.Reader.ReadRune reports for a valid rune
runeLen(r) == IF r < 128 THEN 1 ELSE IF r < 2048 THEN 2 ELSE IF r < 65536 THEN 3 ELSE 4

(* ---- the pushdown automaton -------------------------------------------- *)
(* parser holds the fields of the Go struct; heap holds the Values the       *)
(* parser's *Value pointers refer to (address 0 is nil), and panic names the *)
(* array an index left ("" for none): Go ends the call with a runtime panic. *)
noErr == [wraps |-> "nil", msg |-> "", pos |-> 0]

ErrParseAt(msg, pos) == [wraps |-> "ErrParse", msg |-> msg, pos |-> pos]

Panic(p, what) == IF p.panic # "" THEN p ELSE [p EXCEPT !.panic = what]

panicked(p) == p.panic # ""

\* &Value{...}: allocate v; its address is Len(p.heap) + 1
newValue(p, v) == [p EXCEPT !.heap = Append(@, v)]

pushValue(p, v) ==
  IF panicked(p) THEN p
  ELSE IF p.valueTop + 1 \notin 0..(depth * 3 - 1) THEN Panic(p, "valueStack")
  ELSE [p EXCEPT !.valueTop = @ + 1, !.valueStack[p.valueTop + 2] = v]

\* the value popValue returns (0 when the index is out of range)
topValue(p) ==
  IF p.valueTop \in 0..(depth * 3 - 1) THEN p.valueStack[p.valueTop + 1] ELSE 0

popValue(p) ==
  IF panicked(p) THEN p
  ELSE IF p.valueTop \notin 0..(depth * 3 - 1) THEN Panic(p, "valueStack")
  ELSE [p EXCEPT !.valueTop = @ - 1]

\* the error pushMode returns
pushModeErr(p) == p.modeTop + 1 >= depth

pushMode(p, m) ==
  IF panicked(p) THEN p
  ELSE IF p.modeTop + 1 >= depth THEN [p EXCEPT !.modeTop = @ + 1]
  ELSE IF p.modeTop + 1 < 0 THEN Panic(p, "modeStack")
  ELSE [p EXCEPT !.modeTop = @ + 1, !.modeStack[p.modeTop + 2] = m]

modeInRange(p) == p.modeTop \in 0..(depth - 1)

\* a popMode that reports no mismatch
popModeErr_never(p, m) == FALSE

\* the error popMode returns
popModeErr(p, m) == modeInRange(p) /\ p.modeStack[p.modeTop + 1] # m

popMode(p, m) ==
  IF panicked(p) THEN p
  ELSE IF ~modeInRange(p) THEN Panic(p, "modeStack")
  ELSE IF p.modeStack[p.modeTop + 1] # m THEN p
  ELSE [p EXCEPT !.modeTop = @ - 1]

\* the mode peekMode returns (-1 when the index is out of range: a panic)
peekMode(p) == IF modeInRange(p) THEN p.modeStack[p.modeTop + 1] ELSE -1

\* a reject that stops the automaton without reporting an error
reject_silent(p) == [p |-> [p EXCEPT !.isRunning = FALSE], err |-> noErr]

reject(p) ==
  [p |-> [p EXCEPT !.isRunning = FALSE],
   err |-> ErrParseAt("invalid character reached", p.pos)]

returnNil(p) == [p |-> p, err |-> noErr]

\* a value pushed with the buffer kept
acceptValue_keep(p, v) == pushValue(newValue(p, v), Len(p.heap) + 1)

\* p.pushValue(&Value{...}); p.buffer = ""
acceptValue(p, v) == [pushValue(newValue(p, v), Len(p.heap) + 1) EXCEPT !.buffer = <<>>]

\* a literal without fraction and exponent tagged as a float
acceptInteger_float(p) ==
  acceptValue(p, [zeroValue EXCEPT !.jsonType = Number, !.numberValue = ParseFloat(p.buffer)])

acceptInteger(p) ==
  acceptValue(p, [zeroValue EXCEPT !.jsonType = Integer, !.integerValue = ParseInt(p.buffer)])

\* a literal with a fraction or an exponent cut to an integer
acceptNumber_integer(p) ==
  acceptValue(p, [zeroValue EXCEPT !.jsonType = Integer, !.integerValue = ParseInt(p.buffer)])

acceptNumber(p) ==
  acceptValue(p, [zeroValue EXCEPT !.jsonType = Number, !.numberValue = ParseFloat(p.buffer)])

terminateLiterals(p) ==
  IF panicked(p) THEN p
  ELSE IF p.state \in {ze, in} THEN acceptInteger(p)
  ELSE IF p.state \in {fs, e3} THEN acceptNumber(p)
  ELSE p

\* arr.arrayValue = append(arr.arrayValue, val); p.pushValue(arr)
appendElement(p, arr, val) ==
  IF panicked(p) THEN p
  ELSE IF arr = 0 THEN Panic(p, "nil")
  ELSE pushValue([p EXCEPT !.heap[arr].arrayValue = Append(@, val)], arr)

\* an element left on the stack above its array
growArray_later(p) == p

growArray(p) ==
  IF panicked(p) THEN p
  ELSE appendElement(popValue(popValue(p)), topValue(popValue(p)), topValue(p))

\* the same, but a pair replaces the pairs that have its key
appendPair_merge(p, obj, k, v) ==
  IF panicked(p) THEN p
  ELSE IF k = 0 \/ obj = 0 THEN Panic(p, "nil")
  ELSE pushValue([p EXCEPT !.heap[obj].objectValue =
                             Append(SelectSeq(@, LAMBDA q : q.key # p.heap[k].stringValue),
                                    pair(p.heap[k].stringValue, v))], obj)

\* obj.objectValue = append(obj.objectValue, pair{key: k, val: v}); p.pushValue(obj)
appendPair(p, obj, k, v) ==
  IF panicked(p) THEN p
  ELSE IF k = 0 \/ obj = 0 THEN Panic(p, "nil")
  ELSE pushValue([p EXCEPT !.heap[obj].objectValue =
                             Append(@, pair(p.heap[k].stringValue, v))], obj)

\* a fold that pops one entry more than the pair and its object
growObject_greedy(p) ==
  IF panicked(p) THEN p
  ELSE appendPair(popValue(popValue(popValue(popValue(p)))),
                  topValue(popValue(popValue(p))), topValue(popValue(p)), topValue(p))

growObject(p) ==
  IF panicked(p) THEN p
  ELSE appendPair(popValue(popValue(popValue(p))), topValue(popValue(popValue(p))),
                  topValue(popValue(p)), topValue(p))

\* consumeCharacter, nextState >= 0: a regular state transition
\* the switch on nextState of a regular transition
transitionEffect(p, r, nextState) ==
  IF nextState \in {t1, t2, t3, f1, f2, f3, f4, mi, ze, in, fr, fs, e1, e2, e3,
                    st, ec, u1, u2, u3, u4}
    THEN [p EXCEPT !.buffer = Append(@, r)]
  ELSE IF nextState = ok THEN
    IF p.state = n3 THEN acceptValue(p, [zeroValue EXCEPT !.jsonType = Null])
    ELSE IF p.state \in {f4, t3} THEN
      acceptValue(p, [zeroValue EXCEPT !.jsonType = Boolean,
                                      !.booleanValue = ParseBool(Append(p.buffer, r))])
    ELSE IF p.state \in {ze, in} THEN acceptInteger(p)
    ELSE IF p.state \in {fs, e3} THEN acceptNumber(p)
    ELSE p
  ELSE p

transition(p, r, nextState) ==
  returnNil([transitionEffect(p, r, nextState) EXCEPT !.state = nextState])

\* case ee: End Empty Object
actEE(p) == returnNil([popMode(p, modeKey) EXCEPT !.state = ok])

\* case eo: End non-empty object
actEO(p) ==
  IF ~modeInRange(p) THEN returnNil(Panic(p, "modeStack"))
  ELSE IF popModeErr(p, modeObject) THEN reject(p)
  ELSE returnNil([growObject(terminateLiterals(popMode(p, modeObject))) EXCEPT !.state = ok])

\* case aa: End empty array
actAA(p) == returnNil([popMode(p, modeArray) EXCEPT !.state = ok])

\* case ea: End array
actEA(p) ==
  IF ~modeInRange(p) THEN returnNil(Panic(p, "modeStack"))
  ELSE IF popModeErr(p, modeArray) THEN reject(p)
  ELSE returnNil([growArray(terminateLiterals(popMode(p, modeArray))) EXCEPT !.state = ok])

\* case so: Start object
actSO(p) ==
  IF pushModeErr(p) THEN reject(pushMode(p, modeKey))
  ELSE returnNil([pushValue(newValue(pushMode(p, modeKey),
                                     [zeroValue EXCEPT !.jsonType = Object]),
                            Len(p.heap) + 1) EXCEPT !.state = ob])

\* case sa: Start array
actSA(p) ==
  IF pushModeErr(p) THEN reject(pushMode(p, modeArray))
  ELSE returnNil([pushValue(newValue(pushMode(p, modeArray),
                                     [zeroValue EXCEPT !.jsonType = Array]),
                            Len(p.heap) + 1) EXCEPT !.state = ar])

\* case es: End String
\* switch p.peekMode() { case modeKey: p.state = co; default: p.state = ok }
\* a string that always ends in state ok
afterString_ok(p) ==
  IF ~modeInRange(p) THEN returnNil(Panic(p, "modeStack"))
  ELSE returnNil([p EXCEPT !.state = ok])

afterString(p) ==
  IF ~modeInRange(p) THEN returnNil(Panic(p, "modeStack"))
  ELSE IF peekMode(p) = modeKey THEN returnNil([p EXCEPT !.state = co])
  ELSE returnNil([p EXCEPT !.state = ok])

actES(p, r) ==
  afterString(acceptValue(p, [zeroValue EXCEPT
                                !.jsonType = String,
                                !.stringValue =
                                  Unquote(ReplaceEscapedSlash(Append(p.buffer, r)))]))

\* case ep: End an array element or object pair
\* case ep with a value required after the comma of an array
foldPending_strict(p) ==
  IF ~modeInRange(p) THEN returnNil(Panic(p, "modeStack"))
  ELSE IF peekMode(p) = modeArray THEN returnNil([growArray(p) EXCEPT !.state = va])
  ELSE IF peekMode(p) = modeObject THEN
    returnNil([pushMode(popMode(growObject(p), modeObject), modeKey) EXCEPT !.state = ke])
  ELSE reject(p)

\* case ep with a comma let through where no container is open
foldPending_lenient(p) ==
  IF ~modeInRange(p) THEN returnNil(Panic(p, "modeStack"))
  ELSE IF peekMode(p) = modeArray THEN returnNil([growArray(p) EXCEPT !.state = tc])
  ELSE IF peekMode(p) = modeObject THEN
    returnNil([pushMode(popMode(growObject(p), modeObject), modeKey) EXCEPT !.state = ke])
  ELSE returnNil(p)

\* switch p.peekMode() of case ep
foldPending(p) ==
  IF ~modeInRange(p) THEN returnNil(Panic(p, "modeStack"))
  ELSE IF peekMode(p) = modeArray THEN returnNil([growArray(p) EXCEPT !.state = tc])
  ELSE IF peekMode(p) = modeObject THEN
    returnNil([pushMode(popMode(growObject(p), modeObject), modeKey) EXCEPT !.state = ke])
  ELSE reject(p)

actEP(p) == foldPending(terminateLiterals(p))

\* a colon that pushes object mode above key mode
actEK_nested(p) == returnNil([pushMode(p, modeObject) EXCEPT !.state = va])

\* case ek: End key
actEK(p) == returnNil([pushMode(popMode(p, modeKey), modeObject) EXCEPT !.state = va])

\* case sc: start comment
actSC(p) == returnNil([pushMode(p, p.state) EXCEPT !.state = c1])

\* case ce: comment end; also the first two statements of case cc
actCE(p) ==
  IF ~modeInRange(p) THEN returnNil(Panic(p, "modeStack"))
  ELSE returnNil(popMode([p EXCEPT !.state = peekMode(p)], peekMode(p)))

\* nextState = stateTransitionTable[p.state][nextClass]
\* a table whose row ze takes a digit as row in does
tableLookup_leadingZero(s, c) ==
  IF s = ze /\ c \in {charZero_, charDigit} THEN in ELSE stateTransitionTable[s + 1][c + 1]

tableLookup(s, c) == stateTransitionTable[s + 1][c + 1]

\* the class consumeCharacter gives the rune r
classOf(p, r) ==
  IF p.isEOF THEN charEof__
  ELSE IF r >= 128 THEN charEtc__
  ELSE asciiClasses[r + 1]

\* Run one step of the PDA
\* the action switch of consumeCharacter, but for case cc
action(p, r, nextState) ==
  CASE nextState = ee -> actEE(p)
    [] nextState = eo -> actEO(p)
    [] nextState = aa -> actAA(p)
    [] nextState = ea -> actEA(p)
    [] nextState = so -> actSO(p)
    [] nextState = sa -> actSA(p)
    [] nextState = es -> actES(p, r)
    [] nextState = ep -> actEP(p)
    [] nextState = ek -> actEK(p)
    [] nextState = sc -> actSC(p)
    [] nextState = ce -> actCE(p)
    [] OTHER -> reject(p)

RECURSIVE consumeCharacter(_, _)

\* case cc: restore the state as case ce does, run consumeCharacter again and
\* drop the error it returns
actCC(p, r) ==
  IF panicked(actCE(p).p) THEN actCE(p)
  ELSE returnNil(consumeCharacter(actCE(p).p, r).p)

dispatch(p, r, nextState) ==
  IF nextState >= 0 THEN transition(p, r, nextState)
  ELSE IF nextState = cc THEN actCC(p, r)
  ELSE action(p, r, nextState)

consumeCharacter(p, r) ==
  IF classOf(p, r) = charErr__ THEN reject(p)
  ELSE dispatch(p, r, tableLookup(p.state, classOf(p, r)))

(* ---- Parse ---------------------------------------------------------------*)
\* the parser literal of Parse; every array element starts as its zero value
\* (mode 0 is modeArray, a nil pointer is address 0) but valueStack[0] = &Value{}
newParser ==
  [isRunning |-> TRUE, isEOF |-> FALSE, state |-> sr, modeTop |-> -1, valueTop |-> -1,
   modeStack |-> [i \in 1..depth |-> modeArray],
   valueStack |-> [i \in 1..(depth * 3) |-> IF i = 1 THEN 1 ELSE 0],
   buffer |-> <<>>, pos |-> 0,
   heap |-> <<zeroValue>>, panic |-> ""]

\* what b.ReadRune() returns: a rune and its width, io.EOF, or another error
runeRead_narrow(r) == [r |-> r, n |-> 1, err |-> "nil"]
runeRead(r) == [r |-> r, n |-> runeLen(r), err |-> "nil"]
eofRead == [r |-> 0, n |-> 0, err |-> "EOF"]
failedRead_asEOF == [r |-> 0, n |-> 0, err |-> "EOF"]
failedRead == [r |-> 0, n |-> 0, err |-> "io"]
\* a byte that starts no valid encoding: utf8.RuneError, width 1
invalidRead == [r |-> ReplacementChar, n |-> 1, err |-> "nil"]
\* the error of a reader that failed
readErr == [wraps |-> "io", msg |-> "read failed", pos |-> 0]

\* returning the root slot of the value stack with the error
returnErr_partial(p, err) ==
  [p |-> newValue(p, zeroValue), pc |-> "returned", retVal |-> p.valueStack[1], retErr |-> err]

\* return &Value{}, err
returnErr(p, err) ==
  [p |-> newValue(p, zeroValue), pc |-> "returned", retVal |-> Len(p.heap) + 1, retErr |-> err]

\* the loop condition, and the return that follows the loop
loopOrReturn(p) ==
  IF p.isRunning THEN [p |-> p, pc |-> "loop", retVal |-> 0, retErr |-> noErr]
  ELSE [p |-> p, pc |-> "returned", retVal |-> p.valueStack[1], retErr |-> noErr]

\* what follows the call c of consumeCharacter in the loop body
afterConsume(c, n) ==
  IF panicked(c.p) THEN [p |-> c.p, pc |-> "panicked", retVal |-> 0, retErr |-> noErr]
  ELSE IF c.err # noErr THEN returnErr(c.p, c.err)
  ELSE loopOrReturn([c.p EXCEPT !.pos = @ + n])

\* the loop body once the read error, if any, is io.EOF
consume_unchecked(p, rd) == afterConsume(consumeCharacter(p, rd.r), rd.n)

\* a check that tells the decoder's replacement, one byte wide, from U+FFFD
\* itself
consume_byWidth(p, rd) ==
  IF rd.r = ReplacementChar /\ rd.n = 1
    THEN returnErr(p, ErrParseAt("invalid UTF-8 character", p.pos))
  ELSE afterConsume(consumeCharacter(p, rd.r), rd.n)

consume(p, rd) ==
  IF rd.r = ReplacementChar THEN returnErr(p, ErrParseAt("invalid UTF-8 character", p.pos))
  ELSE afterConsume(consumeCharacter(p, rd.r), rd.n)

\* one iteration of Parse's main loop on what ReadRune returned
ParseLoop(p, rd) ==
  IF rd.err = "io" THEN returnErr(p, readErr)
  ELSE IF rd.err = "EOF" THEN consume([p EXCEPT !.isEOF = TRUE, !.isRunning = FALSE], rd)
  ELSE consume(p, rd)

\* Parse up to its main loop
ParseStart ==
  [p |-> pushMode(newParser, modeDone), pc |-> "loop", retVal |-> 0, retErr |-> noErr]

(* ---- the reader's content as a sequence: runes, then what ends it -------- *)
EOFMark == -1
IOErrMark == -2
InvalidMark == -3

readOf(x) ==
  IF x = EOFMark THEN eofRead
  ELSE IF x = IOErrMark THEN failedRead
  ELSE IF x = InvalidMark THEN invalidRead
  ELSE runeRead(x)

\* Parse over a reader that yields s: a fold of the loop body
\* the call c after the reader yields x
ParseNext(c, x) == IF c.pc # "loop" THEN c ELSE ParseLoop(c.p, readOf(x))

RECURSIVE Run(_)
Run(s) ==
  IF s = <<>> THEN ParseStart
  ELSE ParseNext(Run(SubSeq(s, 1, Len(s) - 1)), s[Len(s)])

\* ParseString(doc)
ParseString(doc) == Run(Append(doc, EOFMark))

(* ---- bounds: the documents the model reads ---------------------------- *)
\* runes read before end-of-input
MaxLen == 7
\* runes of a string literal's body, and of a comment's body
MaxStr == 1
MaxComment == 1

\* runes of a numeric literal read before end-of-input
MaxNumLen == 7

\* runes of a document that is one string literal
MaxStrLen == 8

\* the runes of the documents read: structure and comments, and numbers
Alphabet ==
  {LSQRB, RSQRB, LCURB, RCURB, COMMA, COLON, QUOTE, SLASH, STAR, LF, ONE, MINUS}

\* the runes of long integers, alone or in arrays
MaxBigLen == 10
BigAlphabet == {MINUS, ONE, NINE, SP, LSQRB, RSQRB, COMMA}

NumAlphabet ==
  {MINUS, PLUS, ZERO, ONE, POINT, LOW_E, CAP_E, LSQRB, RSQRB, COMMA, SP}

\* the runes of string literals: quote, escapes (\\ \/ \n \u with the hex
\* digits 0 and d) and the same runes kept verbatim
StrAlphabet == {QUOTE, BACKS, SLASH, LOW_U, ZERO, LOW_D, LOW_N}

\* runes of a document read up to a failure
MaxErrLen == 6

\* runes that lead to every state of the automaton, and runes of two, three
\* and four bytes
ErrAlphabet ==
  {LSQRB, RSQRB, LCURB, COLON, COMMA, QUOTE, BACKS, SLASH, STAR, LF, MINUS,
   POINT, ZERO, ONE, LOW_A, LOW_E, LOW_F, LOW_L, LOW_N, LOW_R, LOW_S, LOW_T, LOW_U,
   LatinE, ReplacementChar, Emoji}

StringRunes == {QUOTE, BACKS, LatinE, ReplacementChar, Emoji}
CommentRunes == {SLASH, STAR, LF, ReplacementChar, Emoji}

(* ---- json.go: the accessors ----------------------------------------------*)
\* an error of an extractor: fmt.Errorf("%w: ...", ErrType, v)
ErrTypeOf(msg) == [wraps |-> "ErrType", msg |-> msg, pos |-> 0]

\* what an accessor returns: the heap after the call, the *Value, and whether
\* the call panicked (a nil receiver is dereferenced)
found(h, v) == [heap |-> h, v |-> v, panic |-> FALSE]
nilDereference(h) == [heap |-> h, v |-> 0, panic |-> TRUE]

\* return &Value{}
placeholder_nil(h) == found(h, 0)
placeholder(h) == found(Append(h, zeroValue), Len(h) + 1)

\* Value.Index
Index(h, v, i) ==
  IF v = 0 THEN nilDereference(h)
  ELSE IF h[v].jsonType # Array THEN placeholder(h)
  ELSE IF i < 0 \/ i >= Len(h[v].arrayValue) THEN placeholder(h)
  ELSE found(h, h[v].arrayValue[i + 1])

\* the loop of Key over objectValue from position n on
RECURSIVE rangeKey(_, _, _, _)
rangeKey(h, pairs, k, n) ==
  IF n > Len(pairs) THEN placeholder(h)
  ELSE IF pairs[n].key = k THEN found(h, pairs[n].val)
  ELSE rangeKey(h, pairs, k, n + 1)

\* Value.Key
Key(h, v, k) ==
  IF v = 0 THEN nilDereference(h)
  ELSE IF h[v].jsonType # Object THEN placeholder(h)
  ELSE rangeKey(h, h[v].objectValue, k, 1)

\* the extractors: the payload and the error
AsNull(v) ==
  IF v.jsonType = Null THEN [val |-> "struct{}{}", err |-> noErr]
  ELSE [val |-> "struct{}{}", err |-> ErrTypeOf("value not null")]

AsInteger_lenient(v) ==
  IF v.jsonType \in {Integer, Number} THEN [val |-> v.integerValue, err |-> noErr]
  ELSE [val |-> 0, err |-> ErrTypeOf("value not a valid integer")]

AsInteger(v) ==
  IF v.jsonType = Integer THEN [val |-> v.integerValue, err |-> noErr]
  ELSE [val |-> 0, err |-> ErrTypeOf("value not a valid integer")]

AsString(v) ==
  IF v.jsonType = String THEN [val |-> v.stringValue, err |-> noErr]
  ELSE [val |-> <<>>, err |-> ErrTypeOf("value not a valid string")]

AsBoolean_untagged(v) == [val |-> v.booleanValue, err |-> noErr]

AsBoolean(v) ==
  IF v.jsonType = Boolean THEN [val |-> v.booleanValue, err |-> noErr]
  ELSE [val |-> FALSE, err |-> ErrTypeOf("value not a valid boolean")]

\* a slice: nil, or its elements
nilSlice == [isNil |-> TRUE, elems |-> <<>>]

AsArray(v) ==
  IF v.jsonType = Array
    THEN [val |-> [isNil |-> v.arrayValue = <<>>, elems |-> v.arrayValue], err |-> noErr]
  ELSE [val |-> nilSlice, err |-> ErrTypeOf("value not a valid array")]

\* a map[string]*Value: nil, or its entries
nilMap == [isNil |-> TRUE, entries |-> <<>>]

\* a loop that leaves alone a key the map already holds
RECURSIVE rangePairs_keep(_, _)
rangePairs_keep(m, pairs) ==
  IF pairs = <<>> THEN m
  ELSE rangePairs_keep([k \in DOMAIN m \cup {Head(pairs).key} |->
                           IF k \in DOMAIN m THEN m[k] ELSE Head(pairs).val],
                       Tail(pairs))

\* m after the loop "for _, pair := range pairs { m[pair.key] = pair.val }"
RECURSIVE rangePairs(_, _)
rangePairs(m, pairs) ==
  IF pairs = <<>> THEN m
  ELSE rangePairs([k \in DOMAIN m \cup {Head(pairs).key} |->
                      IF k = Head(pairs).key THEN Head(pairs).val ELSE m[k]],
                  Tail(pairs))

AsObject(v) ==
  IF v.jsonType = Object
    THEN [val |-> [isNil |-> FALSE, entries |-> rangePairs(<<>>, v.objectValue)],
          err |-> noErr]
  ELSE [val |-> nilMap, err |-> ErrTypeOf("value not a valid array")]

\* no extractor has been called on the *Value held
noResult == [op |-> "", val |-> 0, err |-> noErr]

(* ---- state ---------------------------------------------------------------*)
(* call: the running call of Parse: its parser p, where it is (pc: in the     *)
(* loop, returned, or ended by a panic) and what it returned;                *)
(* input: what the reader has yielded so far; span: how many runes of the    *)
(* string or comment body the automaton is in have been read;                *)
(* nav: the caller of Parse: the *Value v it holds (first the one Parse       *)
(* returned), the accessor calls it chained from there, whether one of them  *)
(* panicked, and what the last extractor call returned;                      *)
(* peer: a second call of Parse running at the same time, and what its       *)
(* reader has yielded;                                                        *)
(* reader: the bufio.Reader of the call and the io.Reader under it, where    *)
(* the bytes are modelled: the chunks the io.Reader has still to yield, the  *)
(* bytes buffered and not yet decoded, and all the bytes of the reader.      *)
VARIABLES call, input, span, nav, peer, reader

vars == <<call, input, span, nav, peer, reader>>

pda == call.p
pc == call.pc
retVal == call.retVal
retErr == call.retErr

Init ==
  /\ call = ParseStart
  /\ input = <<>>
  /\ span = 0
  /\ nav = [v |-> 0, path |-> <<>>, panic |-> FALSE, got |-> noResult]
  /\ peer = [call |-> ParseStart, input |-> <<>>]
  /\ reader = [chunks |-> <<>>, buf |-> <<>>, all |-> <<>>, split |-> <<>>, err |-> FALSE]

inBody(s) == s \in {st, ec, u1, u2, u3, u4, c2, c3, c4}

Iterate(x) ==
  /\ call.pc = "loop"
  /\ call' = ParseLoop(call.p, readOf(x))
  /\ span' = IF inBody(call.p.state) /\ inBody(call'.p.state) THEN span + 1 ELSE 0
  /\ input' = Append(input, x)
  /\ nav' = [nav EXCEPT !.v = call'.retVal]
  /\ peer' = peer
  /\ reader' = reader

\* the documents read: at most MaxLen runes, bodies of strings and comments
\* no longer than MaxStr and MaxComment
Shaped(r, limit) ==
  /\ Len(input) < limit
  /\ (pda.state = st /\ span >= MaxStr) => r = QUOTE
  /\ (pda.state = c2 /\ span >= MaxComment) => r = LF
  /\ (pda.state = c3 /\ span >= MaxComment) => r = STAR
  /\ (pda.state = c4 /\ span >= MaxComment) => r = SLASH

\* ReadRune returned the rune r
ReadRune(r, limit) == Shaped(r, limit) /\ Iterate(r)

\* ReadRune returned io.EOF
ReadEOF == Iterate(EOFMark)

\* ReadRune returned another error
ReadError == Iterate(IOErrMark)

Next ==
  \/ \E r \in Alphabet : ReadRune(r, MaxLen)
  \/ ReadEOF
  \/ ReadError

Spec == Init /\ [][Next]_vars

\* ReadRune returned the rune r of a document that is a long integer or an
\* array of them, with blanks after the integers only
ReadBigRune(r) ==
  /\ Len(input) < MaxBigLen
  /\ r = LSQRB => input = <<>>
  /\ r = SP => pda.state \in {ze, in}
  /\ Iterate(r)

NextBig ==
  \/ \E r \in BigAlphabet : ReadBigRune(r)
  \/ ReadEOF

SpecBig == Init /\ [][NextBig]_vars

NextNum ==
  \/ \E r \in NumAlphabet : ReadRune(r, MaxNumLen)
  \/ ReadEOF
  \/ ReadError

SpecNum == Init /\ [][NextNum]_vars

\* ReadRune returned the rune r of a document that is one string literal
ReadStringRune(r) ==
  /\ Len(input) < MaxStrLen
  /\ input = <<>> => r = QUOTE
  /\ pda.state \in {sr, st, ec, u1, u2, u3, u4}
  /\ Iterate(r)

NextStr ==
  \/ \E r \in StrAlphabet : ReadStringRune(r)
  \/ ReadEOF
  \/ ReadError

SpecStr == Init /\ [][NextStr]_vars

\* ReadRune returned utf8.RuneError for a byte that is no valid encoding
ReadInvalid == Iterate(InvalidMark)

\* ReadRune returned the rune r; the bodies of strings and comments are made
\* of the runes that end them and of runes outside ASCII, and 0 is the one
\* hex digit read
ReadErrRune(r) ==
  /\ pda.state = st => r \in StringRunes
  /\ pda.state \in {c2, c3, c4} => r \in CommentRunes
  /\ pda.state \in {u1, u2, u3, u4} => r \notin {ONE, LOW_A, LOW_E, LOW_F}
  /\ ReadRune(r, MaxErrLen)

NextErr ==
  \/ \E r \in ErrAlphabet : ReadErrRune(r)
  \/ ReadInvalid
  \/ ReadEOF
  \/ ReadError

SpecErr == Init /\ [][NextErr]_vars

TypeOK ==
  /\ pc \in {"loop", "returned", "panicked"}
  /\ pda.state \in 0..(numStates - 1)

(* ---- json.go: the accessors the properties use -------------------------- *)
\* Value.Type
Type(v) == IF v.jsonType >= 0 /\ v.jsonType < numTypes THEN v.jsonType ELSE -1

\* Value.AsNumber: the float64 and whether the error is nil
AsNumber(v) ==
  IF v.jsonType = Integer THEN [val |-> float64(v.integerValue), ok |-> TRUE]
  ELSE IF v.jsonType = Number THEN [val |-> v.numberValue, ok |-> TRUE]
  ELSE [val |-> normFloat(FALSE, 0, 0), ok |-> FALSE]

(* ---- reading a call's outcome -------------------------------------------- *)
front(s) == SubSeq(s, 1, Len(s) - 1)

\* the call before its last read, and what that read was
before == Run(front(input))
lastRead == input[Len(input)]

\* the tree below the address a
RECURSIVE Tree(_, _)
Tree(h, a) ==
  IF a = 0 THEN [nil |-> TRUE]
  ELSE [jsonType |-> h[a].jsonType, numberValue |-> h[a].numberValue,
        integerValue |-> h[a].integerValue, stringValue |-> h[a].stringValue,
        booleanValue |-> h[a].booleanValue,
        arrayValue |-> [i \in 1..Len(h[a].arrayValue) |-> Tree(h, h[a].arrayValue[i])],
        objectValue |-> [i \in 1..Len(h[a].objectValue) |->
                           [key |-> h[a].objectValue[i].key,
                            val |-> Tree(h, h[a].objectValue[i].val)]]]

\* what the automaton holds: its state, buffer and the entries on its stacks
Live(p) ==
  [state |-> p.state, buffer |-> p.buffer, modeTop |-> p.modeTop,
   modes |-> [i \in 1..(IF modeInRange(p) THEN p.modeTop + 1 ELSE 0) |-> p.modeStack[i]],
   values |-> [i \in 1..(p.valueTop + 1) |-> Tree(p.heap, p.valueStack[i])]]

\* Parse returned a parse error and the placeholder
Rejected ==
  /\ pc = "returned"
  /\ retErr.wraps = "ErrParse"
  /\ pda.heap[retVal] = zeroValue

\* Parse returned a nil error
Accepted == pc = "returned" /\ retErr = noErr

\* the same of a call c that Run computed
isRejected(c) ==
  /\ c.pc = "returned"
  /\ c.retErr.wraps = "ErrParse"
  /\ c.p.heap[c.retVal] = zeroValue

isAccepted(c) == c.pc = "returned" /\ c.retErr = noErr

\* the tree a call returned
root(c) == Tree(c.p.heap, c.retVal)

\* two calls ended the same way: both failed, or both returned equal trees
SameOutcome(a, b) ==
  \/ a.pc = "returned" /\ a.retErr # noErr /\ b.pc = "returned" /\ b.retErr # noErr
  \/ isAccepted(a) /\ isAccepted(b) /\ root(a) = root(b)

(* ---- a scanner of the text, independent of the automaton ------------------ *)
firstAt(s, from, P(_)) ==
  IF \E i \in from..Len(s) : P(i)
    THEN CHOOSE i \in from..Len(s) : P(i) /\ \A j \in from..(i - 1) : ~P(j)
    ELSE 0

\* s without its complete comments; mode is "text", "string" or "escape"
RECURSIVE stripComments(_, _)
stripComments(s, mode) ==
  IF s = <<>> THEN <<>>
  ELSE IF mode = "escape" THEN <<s[1]>> \o stripComments(Tail(s), "string")
  ELSE IF mode = "string" THEN
    <<s[1]>> \o stripComments(Tail(s), IF s[1] = BACKS THEN "escape"
                                       ELSE IF s[1] = QUOTE THEN "text" ELSE "string")
  ELSE IF s[1] = QUOTE THEN <<s[1]>> \o stripComments(Tail(s), "string")
  ELSE IF Len(s) >= 2 /\ s[1] = SLASH /\ s[2] = SLASH THEN
    LET e == firstAt(s, 3, LAMBDA i : s[i] = LF)
    IN IF e = 0 THEN <<s[1]>> \o stripComments(Tail(s), "text")
       ELSE stripComments(dropN(s, e), "text")
  ELSE IF Len(s) >= 2 /\ s[1] = SLASH /\ s[2] = STAR THEN
    LET e == firstAt(s, 3, LAMBDA i : i < Len(s) /\ s[i] = STAR /\ s[i + 1] = SLASH)
    IN IF e = 0 THEN <<s[1]>> \o stripComments(Tail(s), "text")
       ELSE stripComments(dropN(s, e + 1), "text")
  ELSE <<s[1]>> \o stripComments(Tail(s), "text")

\* where the text s ends: in plain text, in a string, or in a comment
RECURSIVE lexMode(_)
lexMode(s) ==
  IF s = <<>> THEN "text"
  ELSE LET m == lexMode(front(s))
           c == s[Len(s)]
           text == IF c = QUOTE THEN "string" ELSE IF c = SLASH THEN "slash" ELSE "text"
       IN CASE m = "text" -> text
            [] m = "slash" -> IF c = SLASH THEN "line" ELSE IF c = STAR THEN "block" ELSE text
            [] m = "string" -> IF c = BACKS THEN "escape"
                               ELSE IF c = QUOTE THEN "text" ELSE "string"
            [] m = "escape" -> "string"
            [] m = "line" -> IF c = LF THEN "text" ELSE "line"
            [] m = "block" -> IF c = STAR THEN "blockstar" ELSE "block"
            [] m = "blockstar" -> IF c = SLASH THEN "text"
                                  ELSE IF c = STAR THEN "blockstar" ELSE "block"

\* the runes the reader yielded, without the mark of how it ended
doc == IF input # <<>> /\ lastRead \in {EOFMark, IOErrMark} THEN front(input) ELSE input

ended == input # <<>> /\ lastRead = EOFMark

\* k times the rune r
rep(r, k) == [i \in 1..k |-> r]

(* ======================= properties ======================================= *)

(* C1: Parse returns a nil error only if end-of-input was consumed with the    *)
(* automaton in state ok, the mode stack holding only the root marker          *)
(* (modeTop = 0) and the value stack holding exactly one entry (valueTop = 0); *)
(* an input that ends inside an open array or object is a failure.             *)
C1_NilErrorOnlyWhenComplete ==
  Accepted => /\ pda.isEOF
              /\ pda.state = ok
              /\ pda.modeTop = 0
              /\ peekMode(pda) = modeDone
              /\ pda.valueTop = 0

(* C2: whenever Parse returns a non-nil error the Value it returns is the      *)
(* Null-typed placeholder, a fresh zero Value no stack entry and no container  *)
(* refers to; with a nil error it returns valueStack[0].                       *)
C2_ErrorReturnsPlaceholder ==
  pc = "returned" =>
    IF retErr = noErr THEN retVal = pda.valueStack[1]
    ELSE /\ retVal \in 1..Len(pda.heap)
         /\ pda.heap[retVal] = zeroValue
         /\ Type(pda.heap[retVal]) = Null
         /\ \A i \in 1..(depth * 3) : pda.valueStack[i] # retVal
         /\ \A a \in 1..Len(pda.heap) :
              /\ \A i \in 1..Len(pda.heap[a].arrayValue) : pda.heap[a].arrayValue[i] # retVal
              /\ \A i \in 1..Len(pda.heap[a].objectValue) : pda.heap[a].objectValue[i].val # retVal

\* a parse that failed with a partly built tree on the value stack
C2_Witness ==
  /\ pc = "returned"
  /\ retErr # noErr
  /\ pda.valueTop >= 1
  /\ pda.heap[pda.valueStack[1]].jsonType \in {Array, Object}

(* C3: when a line comment is ended by end-of-input and the state that was     *)
(* active before the comment has no legal end-of-input transition, Parse       *)
(* returns a non-nil error.                                                    *)
C3_LineCommentAtEOFRejects ==
  (/\ ended
   /\ before.pc = "loop"
   /\ before.p.state = c2
   /\ modeInRange(before.p)
   /\ tableLookup(peekMode(before.p), charEof__) = xx)
  => (pc = "returned" /\ retErr # noErr)

(* C4: every read and write of the mode stack uses an index in 0..depth-1;     *)
(* exceeding the maximum depth, by opening a container or by entering a        *)
(* comment, ends in a returned parse error and never in an out-of-range access.*)
C4_ModeStackIndexInRange ==
  /\ pda.panic # "modeStack"
  /\ (pda.modeTop >= depth /\ pc # "loop") => (pc = "returned" /\ retErr # noErr)

(* C5: a document whose arrays are nested exactly depth levels deep parses     *)
(* successfully, and one nested a level deeper fails with the depth-exceeded   *)
(* error.                                                                      *)
nested(k) == rep(LSQRB, k) \o rep(RSQRB, k)

isPrefix(s, t) == Len(s) <= Len(t) /\ SubSeq(t, 1, Len(s)) = s

C5_DepthBound ==
  /\ isPrefix(input, Append(nested(depth), EOFMark)) =>
       /\ retErr = noErr
       /\ pc # "panicked"
       /\ ended => pc = "returned"
  /\ (isPrefix(input, Append(nested(depth + 1), EOFMark)) /\ Len(input) > depth) =>
       /\ pc = "returned"
       /\ retErr.wraps = "ErrParse"
       /\ retErr.msg = "nested JSON max depth exceeded"

(* C6: structurally malformed documents are rejected with a parse error and   *)
(* no tree: a colon directly followed by a closing bracket, a comma that does *)
(* not follow a completed value (after an opening bracket, a comma, a colon   *)
(* or nothing), and end-of-input inside an open string literal.               *)
lastSignificant(s) ==
  LET t == SelectSeq(stripComments(s, "text"), LAMBDA r : r \notin {SP, LF})
  IN IF t = <<>> THEN 0 ELSE t[Len(t)]

C6_MalformedRejected ==
  input # <<>> =>
    /\ (/\ lastRead \in {RCURB, RSQRB}
        /\ Len(input) >= 2
        /\ input[Len(input) - 1] = COLON
        /\ lexMode(front(front(input))) = "text") => Rejected
    /\ (/\ lastRead = COMMA
        /\ lexMode(front(input)) = "text"
        /\ lastSignificant(front(input)) \in {0, LSQRB, LCURB, COMMA, COLON}) => Rejected
    /\ (ended /\ lexMode(doc) \in {"string", "escape"}) => Rejected

\* {"1":} was read and rejected at its closing bracket
C6_Witness ==
  /\ input = <<LCURB, QUOTE, ONE, QUOTE, COLON, RCURB>>
  /\ Rejected

(* C7: a trailing comma after the last element of a non-empty array, or after *)
(* the last pair of a non-empty object, is accepted, and the closing bracket  *)
(* leaves the automaton with the same containers, elements and pairs as the   *)
(* document without that comma; {"list":[1,2,3,],} yields the object whose    *)
(* key "list" maps to the array of the integers 1, 2, 3.                      *)
intTree(n) ==
  [jsonType |-> Integer, numberValue |-> zeroValue.numberValue, integerValue |-> n,
   stringValue |-> <<>>, booleanValue |-> FALSE, arrayValue |-> <<>>, objectValue |-> <<>>]

arrayTree(elems) ==
  [jsonType |-> Array, numberValue |-> zeroValue.numberValue, integerValue |-> 0,
   stringValue |-> <<>>, booleanValue |-> FALSE, arrayValue |-> elems, objectValue |-> <<>>]

objectTree(pairs) ==
  [jsonType |-> Object, numberValue |-> zeroValue.numberValue, integerValue |-> 0,
   stringValue |-> <<>>, booleanValue |-> FALSE, arrayValue |-> <<>>, objectValue |-> pairs]

\* the runes of "list", and of {"list":[1,2,3,],}
listKey == <<108, 105, 115, 116>>

listDocument ==
  <<LCURB, QUOTE>> \o listKey \o
  <<QUOTE, COLON, LSQRB, ONE, COMMA, TWO, COMMA, 51, COMMA, RSQRB, COMMA, RCURB>>

listDocumentParsed ==
  /\ isAccepted(ParseString(listDocument))
  /\ root(ParseString(listDocument)) =
       objectTree(<<[key |-> listKey,
                     val |-> arrayTree(<<intTree(1), intTree(2), intTree(3)>>)]>>)

\* the last read closes the container open in the call c, after a value
closesAfterValue(c) ==
  /\ c.p.state \in {ok, ze, in, fs, e3}
  /\ modeInRange(c.p)
  /\ \/ lastRead = RSQRB /\ peekMode(c.p) = modeArray
     \/ lastRead = RCURB /\ peekMode(c.p) = modeObject

C7_TrailingCommaSameContainer ==
  /\ listDocumentParsed
  /\ (/\ Len(input) >= 2
      /\ input[Len(input) - 1] = COMMA
      /\ lastRead \in {RSQRB, RCURB}
      /\ closesAfterValue(Run(front(front(input))))) =>
       /\ pc = "loop"
       /\ Live(pda) = Live(Run(Append(front(front(input)), lastRead)).p)

\* [[1,],] was read: two arrays closed after a trailing comma
C7_Witness ==
  /\ input = <<LSQRB, LSQRB, ONE, COMMA, RSQRB, COMMA, RSQRB>>
  /\ pc = "loop"
  /\ pda.state = ok
  /\ pda.valueTop = 0

(* C8: a document with complete line or block comments outside its string    *)
(* literals has the same outcome as the document without them: both fail, or *)
(* both succeed with equal trees. In particular a document that fails at the  *)
(* first rune of a comment fails without the comment as well.                 *)
C8_CommentsTransparent ==
  /\ (/\ pc # "loop"
      /\ input # <<>>
      /\ lastRead # IOErrMark
      /\ stripComments(doc, "text") # doc) =>
       SameOutcome(call, ParseString(stripComments(doc, "text")))
  /\ (/\ Rejected
      /\ input # <<>>
      /\ lastRead = SLASH
      /\ lexMode(front(input)) = "text") =>
       \A rest \in {<<>>, <<ONE>>} : ~isAccepted(ParseString(front(input) \o rest))

(* ---- numeric literals ---------------------------------------------------- *)
NumRunes == {MINUS, PLUS, ZERO, ONE, NINE, POINT, LOW_E, CAP_E}

\* how many digits s starts with
digitRun(s) ==
  LET other == {i \in 1..Len(s) : s[i] < ZERO \/ s[i] > ZERO + 9}
  IN IF other = {} THEN Len(s)
     ELSE (CHOOSE i \in other : \A j \in other : i <= j) - 1

\* the grammar of a number: an optional '-'; a single '0', or a non-zero
\* digit and any digits; optionally '.' and one or more digits; optionally
\* 'e' or 'E', an optional sign and one or more digits
isDigits(s) == s # <<>> /\ digitRun(s) = Len(s)

isExponentOrEnd(s) ==
  \/ s = <<>>
  \/ /\ s[1] \in {LOW_E, CAP_E}
     /\ isDigits(IF Len(s) >= 2 /\ s[2] \in {PLUS, MINUS}
                   THEN SubSeq(s, 3, Len(s)) ELSE Tail(s))

isFractionOrRest(s) ==
  IF s # <<>> /\ s[1] = POINT
    THEN /\ digitRun(Tail(s)) >= 1
         /\ isExponentOrEnd(SubSeq(s, digitRun(Tail(s)) + 2, Len(s)))
    ELSE isExponentOrEnd(s)

isUnsignedNumber(s) ==
  /\ s # <<>>
  /\ IF s[1] = ZERO THEN isFractionOrRest(Tail(s))
     ELSE digitRun(s) >= 1 /\ isFractionOrRest(SubSeq(s, digitRun(s) + 1, Len(s)))

IsNumber(w) == isUnsignedNumber(IF w # <<>> /\ w[1] = MINUS THEN Tail(w) ELSE w)

\* w can be continued to a number
IsNumberPrefix(w) == IsNumber(w) \/ IsNumber(Append(w, ZERO))

hasFracOrExp(w) == \E i \in 1..Len(w) : w[i] \in {POINT, LOW_E, CAP_E}

\* the length of the longest suffix of s made of the runes of numbers
numSuffixLen(s) ==
  LET other == {i \in 1..Len(s) : s[i] \notin NumRunes}
  IN IF other = {} THEN Len(s)
     ELSE Len(s) - (CHOOSE i \in other : \A j \in other : i >= j)

\* the token that ends before the last rune read, and the text before it
tokLen == numSuffixLen(front(input))
token == SubSeq(input, Len(input) - tokLen, Len(input) - 1)
beforeToken == Run(SubSeq(input, 1, Len(input) - 1 - tokLen))

\* the automaton expects a value in the call c
valueExpected(c) == c.p.state \in {sr, ar, tc, va}

\* the last read ends a token that started in the call c, where a value may end
terminates(c) ==
  \/ lastRead \in {SP, EOFMark}
  \/ /\ lastRead \in {COMMA, RSQRB}
     /\ modeInRange(c.p)
     /\ peekMode(c.p) = modeArray

\* the value the token became: the last element of the array it is in, or
\* the value on top of the stack
produced ==
  IF lastRead \in {COMMA, RSQRB}
    THEN LET arr == pda.heap[topValue(pda)].arrayValue
         IN IF arr = <<>> THEN zeroValue ELSE pda.heap[arr[Len(arr)]]
    ELSE pda.heap[topValue(pda)]

(* C9: a numeric literal with neither '.' nor an exponent produces a value    *)
(* tagged Integer, one with a '.' or an exponent a value tagged Number; the   *)
(* literals w and w.0 are equal under AsNumber and differ under Type.         *)
\* v is tagged Integer, f is tagged Number, and they are equal as numbers
sameNumberOtherTag(v, f) ==
  /\ Type(v) = Integer
  /\ Type(f) = Number
  /\ Type(f) # Type(v)
  /\ AsNumber(v).ok
  /\ AsNumber(f).ok
  /\ floatEq(AsNumber(v).val, AsNumber(f).val)

\* the value ParseString returns for the text s, the zero Value if it fails
parsed(c) == IF isAccepted(c) /\ c.retVal # 0 THEN c.p.heap[c.retVal] ELSE zeroValue

\* a token ended here, which started in the call c where a value is expected
tokenEnds(c) == valueExpected(c) /\ terminates(c)

C9_IntegerVersusNumber ==
  (/\ input # <<>>
   /\ token # <<>>
   /\ pc # "panicked"
   /\ retErr = noErr
   /\ tokenEnds(beforeToken)) =>
    /\ Type(produced) = IF hasFracOrExp(token) THEN Number ELSE Integer
    /\ ~hasFracOrExp(token) =>
         sameNumberOtherTag(produced, parsed(ParseString(token \o <<POINT, ZERO>>)))

\* [1,1.0] was read: an array of an Integer and a Number equal as numbers
C9_Witness ==
  /\ input = <<LSQRB, ONE, COMMA, ONE, POINT, ZERO, RSQRB>>
  /\ pc = "loop"
  /\ Len(pda.heap[pda.valueStack[1]].arrayValue) = 2
  /\ Type(pda.heap[pda.heap[pda.valueStack[1]].arrayValue[1]]) = Integer
  /\ Type(pda.heap[pda.heap[pda.valueStack[1]].arrayValue[2]]) = Number

(* C10: the automaton accepts a token as a number if and only if it matches   *)
(* the grammar of IsNumber: it keeps reading exactly the prefixes of such     *)
(* tokens and accepts at the token's end exactly the tokens that match; every *)
(* other token (a leading '+', 01, a bare '-', 1., 1e) is rejected with a     *)
(* parse error.                                                               *)
\* what the automaton did with the token, which started in the call c
tokenJudged(c) ==
  valueExpected(c) =>
    /\ lastRead \in NumRunes =>
         /\ pc = "loop" <=> IsNumberPrefix(Append(token, lastRead))
         /\ pc # "loop" => Rejected
    /\ (token # <<>> /\ terminates(c)) =>
         /\ (pc # "panicked" /\ retErr = noErr) <=> IsNumber(token)
         /\ ~IsNumber(token) => Rejected

C10_NumberGrammar == input # <<>> => tokenJudged(beforeToken)

\* -1.0e1 was read to its end and accepted
C10_Witness ==
  /\ input = <<MINUS, ONE, POINT, ZERO, LOW_E, ONE, EOFMark>>
  /\ Accepted
  /\ Type(pda.heap[retVal]) = Number

(* ---- string literals ------------------------------------------------------ *)
\* the character the escape \c denotes
escapeChar(c) ==
  CASE c = QUOTE -> QUOTE
    [] c = BACKS -> BACKS
    [] c = SLASH -> SLASH
    [] c = 98 -> 8
    [] c = 102 -> 12
    [] c = LOW_N -> LF
    [] c = LOW_R -> 13
    [] c = LOW_T -> 9
    [] OTHER -> c

hexDigit(c) == IF c >= LOW_A THEN c - LOW_A + 10 ELSE IF c >= 65 THEN c - 55 ELSE c - ZERO

\* the content of a literal's body, its escapes replaced left to right
RECURSIVE decodeEscapes(_)
decodeEscapes(s) ==
  IF s = <<>> THEN <<>>
  ELSE IF s[1] = BACKS /\ Len(s) >= 6 /\ s[2] = LOW_U
    THEN <<((hexDigit(s[3]) * 16 + hexDigit(s[4])) * 16 + hexDigit(s[5])) * 16 + hexDigit(s[6])>>
         \o decodeEscapes(SubSeq(s, 7, Len(s)))
  ELSE IF s[1] = BACKS /\ Len(s) >= 2
    THEN <<escapeChar(s[2])>> \o decodeEscapes(SubSeq(s, 3, Len(s)))
  ELSE <<s[1]>> \o decodeEscapes(Tail(s))

\* the runes of "\u0041\/"
escapedDocument == <<QUOTE, BACKS, LOW_U, ZERO, ZERO, 52, ONE, BACKS, SLASH, QUOTE>>

escapedDocumentParsed ==
  /\ isAccepted(ParseString(escapedDocument))
  /\ parsed(ParseString(escapedDocument)).jsonType = String
  /\ parsed(ParseString(escapedDocument)).stringValue = <<65, SLASH>>

\* the document read so far is one complete string literal
literalRead ==
  /\ Len(input) >= 2
  /\ input[1] = QUOTE
  /\ lastRead = QUOTE
  /\ pc = "loop"
  /\ pda.state = ok

(* C11: for every string literal the automaton accepts, the String value      *)
(* pushed at End String is the literal's content with each escape replaced,   *)
(* left to right, by the character it denotes and every other character kept  *)
(* verbatim; "\u0041\/" yields A/, and an escaped backslash followed by a     *)
(* slash yields a backslash followed by a slash.                              *)
C11_EscapeFidelity ==
  /\ escapedDocumentParsed
  /\ literalRead =>
       /\ pda.heap[topValue(pda)].jsonType = String
       /\ pda.heap[topValue(pda)].stringValue =
            decodeEscapes(SubSeq(input, 2, Len(input) - 1))

(* ---- brackets -------------------------------------------------------------*)
\* the brackets left open by the text s (without comments), read outside its
\* string literals; stack holds the opening brackets, innermost last
RECURSIVE openBrackets(_, _, _)
openBrackets(s, inString, stack) ==
  IF s = <<>> THEN stack
  ELSE IF inString /\ s[1] = BACKS THEN openBrackets(SubSeq(s, 3, Len(s)), TRUE, stack)
  ELSE IF s[1] = QUOTE THEN openBrackets(Tail(s), ~inString, stack)
  ELSE IF inString THEN openBrackets(Tail(s), TRUE, stack)
  ELSE IF s[1] \in {LSQRB, LCURB} THEN openBrackets(Tail(s), FALSE, Append(stack, s[1]))
  ELSE IF s[1] \in {RSQRB, RCURB} /\ stack # <<>>
    THEN openBrackets(Tail(s), FALSE, SubSeq(stack, 1, Len(stack) - 1))
  ELSE openBrackets(Tail(s), FALSE, stack)

\* the closing bracket r does not match the innermost container of stack
mismatched(stack, r) ==
  \/ stack = <<>>
  \/ r = RSQRB /\ stack[Len(stack)] = LCURB
  \/ r = RCURB /\ stack[Len(stack)] = LSQRB

\* the last read is a closing bracket, outside strings and comments, that does
\* not match the innermost open container
mismatchRead ==
  /\ input # <<>>
  /\ lastRead \in {RSQRB, RCURB}
  /\ lexMode(front(input)) = "text"
  /\ mismatched(openBrackets(stripComments(front(input), "text"), FALSE, <<>>), lastRead)

\* the mode stack of the call c equals the one the automaton holds
sameModes(c) ==
  /\ pda.modeTop = c.p.modeTop
  /\ \A i \in 1..(c.p.modeTop + 1) : pda.modeStack[i] = c.p.modeStack[i]

(* C12: a closing bracket whose kind does not match the innermost open         *)
(* container (or any closing bracket at root level) makes Parse fail; it       *)
(* closes no container (the mode stack is left as it was) and the root marker  *)
(* modeDone is never popped.                                                   *)
C12_MismatchedBracketFails ==
  /\ mismatchRead => (Rejected /\ sameModes(before))
  /\ pc # "panicked" => (pda.modeTop >= 0 /\ pda.modeStack[1] = modeDone)

\* [1} was read and rejected with the array still open
C12_Witness ==
  /\ input = <<LSQRB, ONE, RCURB>>
  /\ Rejected
  /\ pda.modeTop = 1
  /\ peekMode(pda) = modeArray

(* ---- error categories ----------------------------------------------------- *)
\* the action the table gives the call c for the last rune read
actionRead(c) == tableLookup(c.p.state, classOf(c.p, lastRead))

\* the last read failed in pushMode: a container opened at the maximum depth
depthFailure(c) ==
  /\ c.pc = "loop"
  /\ lastRead \in {LSQRB, LCURB}
  /\ actionRead(c) \in {so, sa}
  /\ pushModeErr(c.p)

\* the last read failed in popMode: a closing bracket that matches no open
\* container of its kind
bracketFailure(c) ==
  /\ c.pc = "loop"
  /\ lastRead \in {RSQRB, RCURB}
  /\ modeInRange(c.p)
  /\ \/ actionRead(c) = eo /\ popModeErr(c.p, modeObject)
     \/ actionRead(c) = ea /\ popModeErr(c.p, modeArray)

(* C13: the error Parse returns names its cause: a failure of pushMode at the  *)
(* maximum depth is reported as depth exceeded, a failure of popMode on a      *)
(* mismatched closing bracket as an unmatched bracket, each distinct from the  *)
(* invalid-character error of a grammar violation.                             *)
C13_ErrorCategories ==
  input # <<>> =>
    /\ depthFailure(before) =>
         (Rejected /\ retErr.msg = "nested JSON max depth exceeded")
    /\ bracketFailure(before) =>
         (Rejected /\ retErr.msg = "unmatched closing brace")

(* ---- byte offsets --------------------------------------------------------- *)
\* the encoded width of what the reader yielded: the UTF-8 length of a rune,
\* one byte for an invalid unit, nothing for the end of the stream
width(x) == IF x = InvalidMark THEN 1 ELSE IF x < 0 THEN 0 ELSE runeLen(x)

RECURSIVE byteLen(_)
byteLen(s) == IF s = <<>> THEN 0 ELSE width(Head(s)) + byteLen(Tail(s))

(* C14: a parse error Parse returns carries the byte offset of the character   *)
(* it was detected at: the sum of the encoded widths of the characters         *)
(* consumed before it; the position of the automaton does not move past the    *)
(* failure, and the call reads nothing more.                                   *)
C14_ErrorByteOffset ==
  /\ Rejected =>
       /\ retErr.pos = byteLen(front(input))
       /\ pda.pos = byteLen(front(input))
  /\ pc = "loop" => pda.pos = byteLen(input)

C14_Witness ==
  /\ Rejected
  /\ \E i \in 1..(Len(input) - 1) : input[i] = Emoji
  /\ retErr.msg = "invalid character reached"
  /\ retErr.pos > Len(input)

(* ---- invalid encoding ----------------------------------------------------- *)
(* C15: in every state of the automaton, string literals and comments          *)
(* included, a unit of input that decodes to no valid code point makes Parse   *)
(* return a parse error at once: the automaton is left as it was, the unit is  *)
(* neither classified nor looked up in the transition table.                   *)
C15_InvalidEncodingFails ==
  (input # <<>> /\ lastRead = InvalidMark) =>
    /\ Rejected
    /\ retErr = ErrParseAt("invalid UTF-8 character", before.p.pos)
    /\ Live(pda) = Live(before.p)
    /\ pda.isRunning = before.p.isRunning
    /\ pda.pos = before.p.pos

C15_Witness ==
  /\ input # <<>> /\ lastRead = InvalidMark
  /\ before.p.state = st
  /\ Rejected

(* ---- failing reader ------------------------------------------------------- *)
(* C16: when the reader fails with an error that is not the end of the stream, *)
(* Parse returns that error as it is, not a parse error, with the Null         *)
(* placeholder, and the automaton is given no end-of-input.                    *)
C16_ReadErrorPropagated ==
  (input # <<>> /\ lastRead = IOErrMark) =>
    /\ pc = "returned"
    /\ retErr = readErr
    /\ retErr.wraps # "ErrParse"
    /\ pda.heap[retVal] = zeroValue
    /\ retVal \notin {before.p.valueStack[i] : i \in 1..(depth * 3)}
    /\ ~pda.isEOF
    /\ Live(pda) = Live(before.p)

C16_Witness ==
  /\ input # <<>> /\ lastRead = IOErrMark
  /\ before.p.state = ok
  /\ before.p.valueTop = 0
  /\ pc = "returned" /\ retErr = readErr

(* ---- the caller: chained accessors and extractors -------------------------- *)
\* accessor calls chained after Parse returned
MaxChain == 2
\* the largest index passed to Index
MaxIndex == 2

NavIndexes == -1..MaxIndex
NavKeys == {<<>>, <<LOW_A>>, <<LOW_D>>}
Extractors ==
  {"AsNull", "AsNumber", "AsInteger", "AsString", "AsBoolean", "AsArray", "AsObject"}

\* {"a":[1,2.0],"d":true,"a":"n"}
navObject ==
  <<LCURB, QUOTE, LOW_A, QUOTE, COLON, LSQRB, ONE, COMMA, TWO, POINT, ZERO, RSQRB, COMMA,
    QUOTE, LOW_D, QUOTE, COLON, LOW_T, LOW_R, LOW_U, LOW_E, COMMA,
    QUOTE, LOW_A, QUOTE, COLON, QUOTE, LOW_N, QUOTE, RCURB>>

\* [{"":-1},null,false]
navArray ==
  <<LSQRB, LCURB, QUOTE, QUOTE, COLON, MINUS, ONE, RCURB, COMMA, LOW_N, LOW_U, LOW_L, LOW_L,
    COMMA, LOW_F, LOW_A, LOW_L, LOW_S, LOW_E, RSQRB>>

\* the documents the caller parses: an object, an array, a text Parse rejects
\* and an array that is never closed
NavDocs == {navObject, navArray, <<RSQRB>>, <<LSQRB>>}

NavAlphabet == UNION {{d[n] : n \in 1..Len(d)} : d \in NavDocs}

\* ReadRune returned the next rune of one of the documents
ReadNavRune(r) ==
  /\ \E d \in NavDocs : isPrefix(Append(input, r), d)
  /\ Iterate(r)

\* ReadRune returned io.EOF at the end of one of the documents
ReadNavEOF == input \in NavDocs /\ ReadEOF

\* v = v.Index(i) or v = v.Key(k): res is what the call returned
chain(res, step) ==
  /\ call' = [call EXCEPT !.p.heap = res.heap]
  /\ nav' = [v |-> res.v, path |-> Append(nav.path, step),
             panic |-> res.panic, got |-> noResult]
  /\ UNCHANGED <<input, span, peer, reader>>

canCall == pc = "returned" /\ ~nav.panic

CallIndex(i) ==
  /\ canCall
  /\ Len(nav.path) < MaxChain
  /\ chain(Index(pda.heap, nav.v, i), [op |-> "Index", i |-> i, k |-> <<>>])

CallKey(k) ==
  /\ canCall
  /\ Len(nav.path) < MaxChain
  /\ chain(Key(pda.heap, nav.v, k), [op |-> "Key", i |-> 0, k |-> k])

numberResult(r) ==
  [val |-> r.val, err |-> IF r.ok THEN noErr ELSE ErrTypeOf("value not a valid number")]

extract(op, v) ==
  CASE op = "AsNull" -> AsNull(v)
    [] op = "AsNumber" -> numberResult(AsNumber(v))
    [] op = "AsInteger" -> AsInteger(v)
    [] op = "AsString" -> AsString(v)
    [] op = "AsBoolean" -> AsBoolean(v)
    [] op = "AsArray" -> AsArray(v)
    [] op = "AsObject" -> AsObject(v)

extracted(op, r) == [op |-> op, val |-> r.val, err |-> r.err]

\* x, err := v.AsNull() and the like
CallExtractor(op) ==
  /\ canCall
  /\ nav' = IF nav.v = 0 THEN [nav EXCEPT !.panic = TRUE]
            ELSE [nav EXCEPT !.got = extracted(op, extract(op, pda.heap[nav.v]))]
  /\ UNCHANGED <<call, input, span, peer, reader>>

NextNav ==
  \/ \E r \in NavAlphabet : ReadNavRune(r)
  \/ ReadNavEOF
  \/ \E i \in NavIndexes : CallIndex(i)
  \/ \E k \in NavKeys : CallKey(k)
  \/ \E op \in Extractors : CallExtractor(op)

SpecNav == Init /\ [][NextNav]_vars

(* ---- what a chain of accessors denotes, read off the tree ------------------ *)
zeroTree == Tree(<<zeroValue>>, 1)

\* the tree Parse returned, computed again from the text
parsedTree == root(Run(input))

firstPair(t, k) == CHOOSE n \in 1..Len(t.objectValue) :
                     /\ t.objectValue[n].key = k
                     /\ \A m \in 1..(n - 1) : t.objectValue[m].key # k

hits(t, step) ==
  IF step.op = "Index"
    THEN t.jsonType = Array /\ step.i >= 0 /\ step.i < Len(t.arrayValue)
  ELSE t.jsonType = Object /\ \E n \in 1..Len(t.objectValue) : t.objectValue[n].key = step.k

stepTree(t, step) ==
  IF ~hits(t, step) THEN zeroTree
  ELSE IF step.op = "Index" THEN t.arrayValue[step.i + 1]
  ELSE t.objectValue[firstPair(t, step.k)].val

RECURSIVE followTree(_, _)
followTree(t, path) ==
  IF path = <<>> THEN t ELSE followTree(stepTree(t, Head(path)), Tail(path))

RECURSIVE missedAlong(_, _)
missedAlong(t, path) ==
  /\ path # <<>>
  /\ \/ ~hits(t, Head(path))
     \/ missedAlong(stepTree(t, Head(path)), Tail(path))

heldTree == followTree(parsedTree, nav.path)

\* the Value held is as Parse and the chain left it
heldUnchanged ==
  /\ nav.v \in 1..Len(pda.heap)
  /\ Tree(pda.heap, nav.v) = heldTree

\* the tag an extractor asks for
tagOf(op) ==
  CASE op = "AsNull" -> Null
    [] op = "AsInteger" -> Integer
    [] op = "AsString" -> String
    [] op = "AsBoolean" -> Boolean
    [] op = "AsArray" -> Array
    [] op = "AsObject" -> Object

lastPair(t, k) == CHOOSE n \in 1..Len(t.objectValue) :
                    /\ t.objectValue[n].key = k
                    /\ \A m \in (n + 1)..Len(t.objectValue) : t.objectValue[m].key # k

\* the slice AsArray returned holds the elements of t in order
isElementsOf(h, x, t) ==
  /\ Len(x.elems) = Len(t.arrayValue)
  /\ \A n \in 1..Len(x.elems) : Tree(h, x.elems[n]) = t.arrayValue[n]

\* the map AsObject returned holds each key of t with the value of its last pair
isEntriesOf(h, x, t) ==
  /\ ~x.isNil
  /\ DOMAIN x.entries = {t.objectValue[n].key : n \in 1..Len(t.objectValue)}
  /\ \A k \in DOMAIN x.entries : Tree(h, x.entries[k]) = t.objectValue[lastPair(t, k)].val

\* x is the payload of t that the extractor op returns
isPayload(h, op, x, t) ==
  CASE op = "AsNull" -> x = "struct{}{}"
    [] op = "AsInteger" -> x = t.integerValue
    [] op = "AsString" -> x = t.stringValue
    [] op = "AsBoolean" -> x = t.booleanValue
    [] op = "AsArray" -> isElementsOf(h, x, t)
    [] op = "AsObject" -> isEntriesOf(h, x, t)

\* x is the zero value of the extractor's result type
isZeroPayload(op, x) ==
  CASE op = "AsNull" -> x = "struct{}{}"
    [] op = "AsInteger" -> x = 0
    [] op = "AsString" -> x = <<>>
    [] op = "AsBoolean" -> x = FALSE
    [] op = "AsArray" -> x.isNil /\ x.elems = <<>>
    [] op = "AsObject" -> x.isNil /\ DOMAIN x.entries = {}

extractorCalled == pc = "returned" /\ nav.got.op \in Extractors \ {"AsNumber"}

\* every Value is as Parse left it, but for the placeholders of the chain
heapAsParsed(h, base) ==
  /\ Len(h) >= Len(base)
  /\ SubSeq(h, 1, Len(base)) = base
  /\ \A a \in (Len(base) + 1)..Len(h) : h[a] = zeroValue

RECURSIVE pow10(_)
pow10(n) == IF n <= 0 THEN 1 ELSE 10 * pow10(n - 1)

\* the float f is the integer i
floatIsInt(f, i) ==
  /\ f.exp >= 0
  /\ f.mant * pow10(f.exp) = (IF i < 0 THEN -i ELSE i)
  /\ i # 0 => (f.neg <=> i < 0)

MaxObjLen == 18
\* runes of a key or of a value in it, after the first
MaxKeyLen == 1

ObjAlphabet == {LCURB, RCURB, QUOTE, COLON, COMMA, LOW_A, LOW_D, ONE}

\* ReadRune returned the rune r of a flat object literal: one opening brace,
\* letters inside strings only, short keys and values
ReadObjectRune(r) ==
  /\ Len(input) < MaxObjLen
  /\ (r = LCURB) <=> (input = <<>>)
  /\ (r \in {LOW_A, LOW_D}) => (pda.state = st /\ Len(pda.buffer) <= MaxKeyLen)
  /\ (pda.state = st /\ r \notin {LOW_A, LOW_D}) => r = QUOTE
  /\ (r = ONE) => Len(pda.buffer) <= MaxKeyLen
  /\ Iterate(r)

NextObj ==
  \/ \E r \in ObjAlphabet : ReadObjectRune(r)
  \/ ReadEOF
  \/ ReadError

SpecObj == Init /\ [][NextObj]_vars

\* m, err := v.AsObject() on what Parse returned for a flat object literal
NextMap ==
  \/ \E r \in ObjAlphabet : ReadObjectRune(r)
  \/ ReadEOF
  \/ CallExtractor("AsObject")

SpecMap == Init /\ [][NextMap]_vars

\* the pairs of a flat object literal, read off its text: the body is split at
\* the commas, each part at its colon
stringTree(str) ==
  [jsonType |-> String, numberValue |-> zeroValue.numberValue, integerValue |-> 0,
   stringValue |-> str, booleanValue |-> FALSE, arrayValue |-> <<>>, objectValue |-> <<>>]

\* how many runes of s come before the first r
runesBefore(s, r) ==
  IF \E n \in 1..Len(s) : s[n] = r
    THEN (CHOOSE n \in 1..Len(s) : s[n] = r /\ \A m \in 1..(n - 1) : s[m] # r) - 1
  ELSE Len(s)

unquoted(s) == SubSeq(s, 2, Len(s) - 1)

valueOfText(s) ==
  IF s # <<>> /\ s[1] = QUOTE THEN stringTree(unquoted(s)) ELSE intTree(digitsValue(s))

pairOfText(s, colon) ==
  [key |-> unquoted(SubSeq(s, 1, colon)), val |-> valueOfText(SubSeq(s, colon + 2, Len(s)))]

RECURSIVE textPairs(_)
textPairs(s) ==
  IF s = <<>> THEN <<>>
  ELSE <<pairOfText(SubSeq(s, 1, runesBefore(s, COMMA)),
                    runesBefore(SubSeq(s, 1, runesBefore(s, COMMA)), COLON))>>
       \o textPairs(SubSeq(s, runesBefore(s, COMMA) + 2, Len(s)))

\* Parse accepted a document that is a closed object literal
objectParsed ==
  /\ Accepted
  /\ Len(doc) >= 2
  /\ doc[1] = LCURB /\ doc[Len(doc)] = RCURB

(* C20: the Object parsed from a literal of n pairs holds exactly those n      *)
(* pairs in the order of the text; pairs with equal keys are neither merged    *)
(* nor dropped nor moved.                                                      *)
C20_PairsInTextualOrder ==
  objectParsed =>
    /\ root(call).jsonType = Object
    /\ root(call).objectValue = textPairs(unquoted(doc))

C20_Witness ==
  /\ objectParsed
  /\ Len(root(call).objectValue) = 3
  /\ root(call).objectValue[1].key = root(call).objectValue[3].key
  /\ root(call).objectValue[1].key # root(call).objectValue[2].key
  /\ root(call).objectValue[1].val # root(call).objectValue[3].val

(* ---- lookup among pairs with one key --------------------------------------- *)
\* the caller called Key(k) once, on the Object Parse returned, and k is a key of it
keyLookedUp ==
  /\ pc = "returned" /\ retErr = noErr
  /\ Len(nav.path) = 1
  /\ nav.path[1].op = "Key"
  /\ hits(parsedTree, nav.path[1])

(* C21: on an Object holding several pairs with the key k, Key(k) returns the  *)
(* value of the last pair with that key.                                       *)
C21_KeyReturnsLastPair ==
  keyLookedUp =>
    Tree(pda.heap, nav.v) = parsedTree.objectValue[lastPair(parsedTree, nav.path[1].k)].val

(* ---- json.go: Value.String -------------------------------------------------- *)
RECURSIVE formatBits(_)
\* the decimal digits of n >= 0
formatBits(n) ==
  IF n < 10 THEN <<ZERO + n>> ELSE formatBits(n \div 10) \o <<ZERO + (n % 10)>>

\* strconv.FormatInt(i, 10)
FormatInt(i) == IF i < 0 THEN <<MINUS>> \o formatBits(0 - i) ELSE formatBits(i)

zeroDigits(n) == [k \in 1..n |-> ZERO]

\* the digits d with the decimal point k places from their end
fmtF(d, k) ==
  IF Len(d) > k THEN SubSeq(d, 1, Len(d) - k) \o <<POINT>> \o SubSeq(d, Len(d) - k + 1, Len(d))
  ELSE <<ZERO, POINT>> \o zeroDigits(k - Len(d)) \o d

\* strconv.FormatFloat(f, 'f', -1, 64): the shortest digits that give f back,
\* no exponent, and no decimal point when f is integral
FormatFloat(f) ==
  IF f = infFloat(f.neg) THEN (IF f.neg THEN <<MINUS>> ELSE <<PLUS>>) \o <<73, LOW_N, LOW_F>>
  ELSE (IF f.neg THEN <<MINUS>> ELSE <<>>) \o
       (IF f.exp >= 0 THEN formatBits(f.mant) \o zeroDigits(f.exp)
        ELSE fmtF(formatBits(f.mant), 0 - f.exp))

lowerhex == <<ZERO, ONE, TWO, 51, 52, 53, 54, 55, 56, 57, LOW_A, 98, 99, LOW_D, LOW_E, LOW_F>>

\* strconv.Quote on one rune: Go escapes for the quote, the backslash and
\* control characters, printable runes as they are
appendEscapedRune(r) ==
  CASE r = QUOTE -> <<BACKS, QUOTE>>
    [] r = BACKS -> <<BACKS, BACKS>>
    [] r = 7 -> <<BACKS, LOW_A>>
    [] r = 8 -> <<BACKS, 98>>
    [] r = 12 -> <<BACKS, LOW_F>>
    [] r = LF -> <<BACKS, LOW_N>>
    [] r = 13 -> <<BACKS, LOW_R>>
    [] r = 9 -> <<BACKS, LOW_T>>
    [] r = 11 -> <<BACKS, 118>>
    [] r < SP \/ r = 127 -> <<BACKS, 120, lowerhex[(r \div 16) + 1], lowerhex[(r % 16) + 1]>>
    [] OTHER -> <<r>>

RECURSIVE quoteBody(_)
quoteBody(str) ==
  IF str = <<>> THEN <<>> ELSE appendEscapedRune(Head(str)) \o quoteBody(Tail(str))

\* strconv.Quote
Quote(str) == <<QUOTE>> \o quoteBody(str) \o <<QUOTE>>

RECURSIVE ValueString(_, _)

\* the loops of String over arrayValue and objectValue, from position n on
RECURSIVE arrayString(_, _, _)
arrayString(h, elems, n) ==
  IF n > Len(elems) THEN <<>>
  ELSE (IF n > 1 THEN <<COMMA, SP>> ELSE <<>>) \o ValueString(h, elems[n])
       \o arrayString(h, elems, n + 1)

RECURSIVE objectString(_, _, _)
objectString(h, pairs, n) ==
  IF n > Len(pairs) THEN <<>>
  ELSE (IF n > 1 THEN <<COMMA, SP>> ELSE <<>>) \o Quote(pairs[n].key) \o <<COLON, SP>>
       \o ValueString(h, pairs[n].val) \o objectString(h, pairs, n + 1)

\* Value.String of the Value at address v (v # 0)
ValueString(h, v) ==
  CASE h[v].jsonType = Null -> <<LOW_N, LOW_U, LOW_L, LOW_L>>
    [] h[v].jsonType = Integer -> FormatInt(h[v].integerValue)
    [] h[v].jsonType = Number -> FormatFloat(h[v].numberValue)
    [] h[v].jsonType = String -> Quote(h[v].stringValue)
    [] h[v].jsonType = Boolean ->
         (IF h[v].booleanValue THEN <<LOW_T, LOW_R, LOW_U, LOW_E>>
          ELSE <<LOW_F, LOW_A, LOW_L, LOW_S, LOW_E>>)
    [] h[v].jsonType = Array -> <<LSQRB>> \o arrayString(h, h[v].arrayValue, 1) \o <<RSQRB>>
    [] h[v].jsonType = Object -> <<LCURB>> \o objectString(h, h[v].objectValue, 1) \o <<RCURB>>
    [] OTHER -> <<60, LOW_U, LOW_N, 107, LOW_N, 111, 119, LOW_N, 62>>

(* ---- round trip -------------------------------------------------------------- *)
\* the rendering of the tree Parse returned
rendered == ValueString(pda.heap, retVal)

\* the literals of the text have no exponent part
plainNumbers == \A n \in 1..Len(input) : input[n] \notin {LOW_E, CAP_E}

(* C22: for the tree v a parse returned, parsing v.String() succeeds and gives *)
(* a tree equal to v: same structure, same scalars, Integers still Integer and *)
(* Numbers still Number.                                                       *)
C22_StringRoundTrip ==
  (Accepted /\ plainNumbers) =>
    /\ isAccepted(ParseString(rendered))
    /\ root(ParseString(rendered)) = root(call)

(* ---- ownership ---------------------------------------------------------------- *)
\* the positions of the containers of h: element n of the array at a, or the
\* value of pair n of the object at a
occupied(h) ==
  {<<a, kind, n>> \in (1..Len(h)) \X {"element", "pair"} \X (1..Len(h)) :
     n <= (IF kind = "element" THEN Len(h[a].arrayValue) ELSE Len(h[a].objectValue))}

childAt(h, pos) ==
  IF pos[2] = "element" THEN h[pos[1]].arrayValue[pos[3]] ELSE h[pos[1]].objectValue[pos[3]].val

children(h, a) == {childAt(h, pos) : pos \in {q \in occupied(h) : q[1] = a}}

\* the Values reached from a in at most n steps down
RECURSIVE below(_, _, _)
below(h, from, n) ==
  IF n = 0 THEN {}
  ELSE UNION {children(h, a) : a \in from}
       \cup below(h, UNION {children(h, a) : a \in from}, n - 1)

RECURSIVE pairCount(_, _)
pairCount(h, a) == IF a = 0 THEN 0 ELSE Len(h[a].objectValue) + pairCount(h, a - 1)

\* no Value is at two positions, the root is at none, no container is below itself
exclusivelyOwned(h, rootValue) ==
  /\ \A p, q \in occupied(h) : p # q => childAt(h, p) # childAt(h, q)
  /\ \A p \in occupied(h) : childAt(h, p) \notin {0, rootValue}
  /\ \A a \in 1..Len(h) : a \notin below(h, {a}, Len(h))

\* the Values that are neither the root nor at a position of a container,
\* apart from the Value the root slot of the stack starts with
unowned(h, rootValue) ==
  {a \in 2..Len(h) : a # rootValue /\ \A p \in occupied(h) : childAt(h, p) # a}

(* C23: what a successful parse returns is a tree: every Value the parse made  *)
(* (one String per key aside, whose text becomes the pair's key) is the root   *)
(* or at exactly one position of exactly one container, and no container is    *)
(* below itself.                                                               *)
C23_ReturnedValueIsTree ==
  Accepted =>
    /\ exclusivelyOwned(pda.heap, retVal)
    /\ Cardinality(unowned(pda.heap, retVal)) = pairCount(pda.heap, Len(pda.heap))

(* ---- two calls of Parse at once ------------------------------------------------ *)
\* runes each of the two readers yields before end-of-input
MaxPairLen == 3

PairAlphabet == {LSQRB, RSQRB, COMMA, ONE}

\* the parser a call works on: the one its own Parse allocated (pda := &parser{})
sharedParser(mine, theirs) == theirs.p
ownParser(mine, theirs) == mine.p

\* an iteration of the first call's loop
FirstReads(x) ==
  /\ x \in PairAlphabet => Len(input) < MaxPairLen
  /\ Iterate(x)

\* an iteration of the second call's loop
SecondReads(x) ==
  /\ peer.call.pc = "loop"
  /\ x \in PairAlphabet => Len(peer.input) < MaxPairLen
  /\ peer' = [call |-> ParseLoop(ownParser(peer.call, call), readOf(x)),
               input |-> Append(peer.input, x)]
  /\ UNCHANGED <<call, input, span, nav, reader>>

NextPair ==
  \/ \E x \in PairAlphabet \cup {EOFMark} : FirstReads(x)
  \/ \E x \in PairAlphabet \cup {EOFMark} : SecondReads(x)

SpecPair == Init /\ [][NextPair]_vars

RuneSelf == 128
UTFMax == 4

\* utf8's table `first`: the length the lead byte b0 announces; a byte that
\* starts no encoding counts 1
leadLen(b0) ==
  IF b0 < RuneSelf THEN 1
  ELSE IF b0 >= 194 /\ b0 <= 223 THEN 2
  ELSE IF b0 >= 224 /\ b0 <= 239 THEN 3
  ELSE IF b0 >= 240 /\ b0 <= 244 THEN 4
  ELSE 1

invalidLead(b0) == b0 >= RuneSelf /\ ~(b0 >= 194 /\ b0 <= 244)

\* utf8's acceptRanges: the second byte a lead byte admits
acceptLo(b0) == IF b0 = 224 THEN 160 ELSE IF b0 = 240 THEN 144 ELSE 128
acceptHi(b0) == IF b0 = 237 THEN 159 ELSE IF b0 = 244 THEN 143 ELSE 191
accepted2(b0, b1) == b1 >= acceptLo(b0) /\ b1 <= acceptHi(b0)
continuation(b) == b >= 128 /\ b <= 191

decodeError == [r |-> ReplacementChar, size |-> 1]

\* utf8.DecodeRune(p), p not empty
DecodeRune(p) ==
  IF p[1] < RuneSelf THEN [r |-> p[1], size |-> 1]
  ELSE IF invalidLead(p[1]) THEN decodeError
  ELSE IF Len(p) < leadLen(p[1]) THEN decodeError
  ELSE IF ~accepted2(p[1], p[2]) THEN decodeError
  ELSE IF leadLen(p[1]) = 2
    THEN [r |-> (p[1] - 192) * 64 + (p[2] - 128), size |-> 2]
  ELSE IF ~continuation(p[3]) THEN decodeError
  ELSE IF leadLen(p[1]) = 3
    THEN [r |-> (p[1] - 224) * 4096 + (p[2] - 128) * 64 + (p[3] - 128), size |-> 3]
  ELSE IF ~continuation(p[4]) THEN decodeError
  ELSE [r |-> (p[1] - 240) * 262144 + (p[2] - 128) * 4096 + (p[3] - 128) * 64 + (p[4] - 128),
        size |-> 4]

\* utf8.FullRune(p): p begins with a whole encoding, or with bytes that can
\* never become one
FullRune(p) ==
  IF p = <<>> THEN FALSE
  ELSE IF Len(p) >= leadLen(p[1]) THEN TRUE
  ELSE IF Len(p) > 1 /\ ~accepted2(p[1], p[2]) THEN TRUE
  ELSE IF Len(p) > 2 /\ ~continuation(p[3]) THEN TRUE
  ELSE FALSE

\* bufio.NewReader over an io.Reader that yields the chunks cs, one per Read
NewReader(cs, b) == [chunks |-> cs, buf |-> <<>>, all |-> b, split |-> cs, err |-> FALSE]

\* bufio.Reader.fill: one Read of the io.Reader; io.EOF once it has no more
fill(rd) ==
  IF rd.chunks = <<>> THEN [rd EXCEPT !.err = TRUE]
  ELSE [rd EXCEPT !.buf = rd.buf \o Head(rd.chunks), !.chunks = Tail(rd.chunks)]

\* one fill, whatever it brought
filled_once(rd) ==
  IF Len(rd.buf) < UTFMax /\ ~FullRune(rd.buf) /\ ~rd.err THEN fill(rd) ELSE rd

\* the loop that opens ReadRune: fill until the buffer begins with a full
\* rune, holds UTFMax bytes, or the io.Reader has failed
RECURSIVE filled(_)
filled(rd) ==
  IF Len(rd.buf) < UTFMax /\ ~FullRune(rd.buf) /\ ~rd.err THEN filled(fill(rd)) ELSE rd

decodeFront(p) == IF p[1] < RuneSelf THEN [r |-> p[1], size |-> 1] ELSE DecodeRune(p)

\* the rest of ReadRune on the filled reader f
readFilled(f) ==
  IF f.buf = <<>>
    THEN [rd |-> eofRead, reader |-> [f EXCEPT !.err = FALSE]]
    ELSE [rd |-> [r |-> decodeFront(f.buf).r, n |-> decodeFront(f.buf).size, err |-> "nil"],
          reader |-> [f EXCEPT !.buf = SubSeq(f.buf, decodeFront(f.buf).size + 1, Len(f.buf))]]

\* bufio.Reader.ReadRune: what it returns and the reader after it
bufioReadRune(rd) == readFilled(filled(rd))

\* Parse(r) as a function: the loop run to its return
RECURSIVE ParseFrom(_, _)
ParseFrom(c, rd) ==
  IF c.pc # "loop" THEN c
  ELSE ParseFrom(ParseLoop(c.p, bufioReadRune(rd).rd), bufioReadRune(rd).reader)

Parse(cs, b) == ParseFrom(ParseStart, NewReader(cs, b))

\* strings.NewReader(s): Read yields all of s at once
stringsNewReader(s) == IF s = <<>> THEN <<>> ELSE <<s>>

\* ParseString(s), s the bytes of the string
ParseStringUTF8(s) == Parse(stringsNewReader(s), s)

\* string(b): a copy of the bytes
stringOf(b) == [i \in 1..Len(b) |-> b[i]]

ParseBytes(b) == ParseStringUTF8(stringOf(b))

(* ---- the documents as bytes, and the ways a reader can cut them ---------- *)
MaxBytes == 4
ByteAlphabet == {QUOTE, 195, 169, 226, 130}

RECURSIVE bytesUpTo(_)
bytesUpTo(n) ==
  IF n = 0 THEN {<<>>}
  ELSE bytesUpTo(n - 1) \cup {Append(b, x) : b \in bytesUpTo(n - 1), x \in ByteAlphabet}

\* the end of the chunk that starts at k, the reader cutting after the
\* positions in cuts
chunkEnd(b, cuts, k) ==
  CHOOSE e \in (cuts \cup {Len(b)}) :
    e >= k /\ \A f \in (cuts \cup {Len(b)}) : f >= k => e <= f

RECURSIVE chunksFrom(_, _, _)
chunksFrom(b, cuts, k) ==
  IF k > Len(b) THEN <<>>
  ELSE <<SubSeq(b, k, chunkEnd(b, cuts, k))>> \o chunksFrom(b, cuts, chunkEnd(b, cuts, k) + 1)

chunkings(b) == {chunksFrom(b, cuts, 1) : cuts \in SUBSET (1..(Len(b) - 1))}

InitBytes ==
  /\ call = ParseStart
  /\ input = <<>>
  /\ span = 0
  /\ nav = [v |-> 0, path |-> <<>>, panic |-> FALSE, got |-> noResult]
  /\ peer = [call |-> ParseStart, input |-> <<>>]
  /\ \E b \in bytesUpTo(MaxBytes) : \E cs \in chunkings(b) : reader = NewReader(cs, b)

\* what ReadRune returned, as an element of the reader's content
markOf(rd) ==
  IF rd.err = "EOF" THEN EOFMark
  ELSE IF rd.r = ReplacementChar /\ rd.n = 1 THEN InvalidMark
  ELSE rd.r

\* one iteration of Parse's main loop, ReadRune decoding the bytes
ReadBytes ==
  /\ call.pc = "loop"
  /\ call' = ParseLoop(call.p, bufioReadRune(reader).rd)
  /\ reader' = bufioReadRune(reader).reader
  /\ input' = Append(input, markOf(bufioReadRune(reader).rd))
  /\ nav' = [nav EXCEPT !.v = call'.retVal]
  /\ UNCHANGED <<span, peer>>

NextBytes == ReadBytes

SpecBytes == InitBytes /\ [][NextBytes]_vars

(* C25: ParseBytes(b), ParseString(string(b)) and Parse over a reader that    *)
(* yields the bytes b, in whatever chunks, return the same value and the      *)
(* same error, for every b.                                                   *)
C25_EntryPointsAgree ==
  pc # "loop" =>
    /\ call = ParseStringUTF8(stringOf(reader.all))
    /\ call = ParseBytes(reader.all)

C25_Witness ==
  /\ Accepted
  /\ reader.all = <<QUOTE, 195, 169, QUOTE>>
  /\ reader.split = <<<<QUOTE, 195>>, <<169, QUOTE>>>>
  /\ input = <<QUOTE, LatinE, QUOTE, EOFMark>>

(* ---- a primitive as the whole document ------------------------------------ *)
HT == 9
CR == 13

\* blanks on each side of the literal
MaxPad == 1
Blanks == {SP, HT, LF, CR}

nullTree == [zeroTree EXCEPT !.jsonType = Null]
boolTree(b) == [zeroTree EXCEPT !.jsonType = Boolean, !.booleanValue = b]
floatTree(f) == [zeroTree EXCEPT !.jsonType = Number, !.numberValue = f]

\* literals of every primitive type, each with the value it denotes
RootLiterals ==
  {[text |-> <<LOW_N, LOW_U, LOW_L, LOW_L>>, value |-> nullTree],
   [text |-> <<LOW_T, LOW_R, LOW_U, LOW_E>>, value |-> boolTree(TRUE)],
   [text |-> <<LOW_F, LOW_A, LOW_L, LOW_S, LOW_E>>, value |-> boolTree(FALSE)],
   [text |-> <<ZERO>>, value |-> intTree(0)],
   [text |-> <<MINUS, ONE, TWO>>, value |-> intTree(0 - 12)],
   [text |-> <<ONE, POINT, TWO>>, value |-> floatTree(normFloat(FALSE, 12, 0 - 1))],
   [text |-> <<MINUS, ZERO, POINT, ONE>>, value |-> floatTree(normFloat(TRUE, 1, 0 - 1))],
   [text |-> <<TWO, CAP_E, ONE>>, value |-> floatTree(normFloat(FALSE, 2, 1))],
   [text |-> <<ONE, LOW_E, MINUS, ONE>>, value |-> floatTree(normFloat(FALSE, 1, 0 - 1))],
   [text |-> <<QUOTE, QUOTE>>, value |-> stringTree(<<>>)],
   [text |-> <<QUOTE, LOW_A, SP, QUOTE>>, value |-> stringTree(<<LOW_A, SP>>)],
   [text |-> <<QUOTE, BACKS, LOW_N, QUOTE>>, value |-> stringTree(<<LF>>)]}

allBlanks(s) == \A n \in 1..Len(s) : s[n] \in Blanks

\* s is the literal lit with i blanks before it and j blanks after it
isPadded(s, lit, i, j) ==
  /\ Len(s) = i + Len(lit.text) + j
  /\ allBlanks(SubSeq(s, 1, i))
  /\ SubSeq(s, i + 1, i + Len(lit.text)) = lit.text
  /\ allBlanks(SubSeq(s, i + Len(lit.text) + 1, Len(s)))

\* s is a document of the literal lit
isRootDoc(s, lit) == \E i, j \in 0..MaxPad : isPadded(s, lit, i, j)

\* s begins a document of the literal lit
beginsRootDoc(s, lit) ==
  \E i \in 0..MaxPad :
    \/ Len(s) <= i /\ allBlanks(s)
    \/ /\ Len(s) > i
       /\ allBlanks(SubSeq(s, 1, i))
       /\ \/ isPrefix(SubSeq(s, i + 1, Len(s)), lit.text)
          \/ \E j \in 0..MaxPad : isPadded(s, lit, i, j)

RootAlphabet == Blanks \cup UNION {{d.text[n] : n \in 1..Len(d.text)} : d \in RootLiterals}

\* ReadRune returned the next rune of one of the documents
ReadRootRune(r) ==
  /\ \E lit \in RootLiterals : beginsRootDoc(Append(input, r), lit)
  /\ Iterate(r)

\* ReadRune returned io.EOF at the end of one of the documents
ReadRootEOF ==
  /\ \E lit \in RootLiterals : isRootDoc(input, lit)
  /\ ReadEOF

NextRoot ==
  \/ \E r \in RootAlphabet : ReadRootRune(r)
  \/ ReadRootEOF

SpecRoot == Init /\ [][NextRoot]_vars

(* C26: a primitive is a legal root: a document that is one null, boolean,    *)
(* number or string literal, with or without whitespace around it, is read    *)
(* without an error to its end and Parse returns the value of the literal.    *)
C26_PrimitiveRoot ==
  /\ pc # "panicked"
  /\ retErr = noErr
  /\ \A lit \in RootLiterals :
       (ended /\ isRootDoc(doc, lit)) =>
         /\ Accepted
         /\ Tree(pda.heap, retVal) = lit.value

C26_Witness ==
  /\ input = <<SP, ONE, POINT, TWO, LF, EOFMark>>
  /\ Accepted
  /\ Type(pda.heap[retVal]) = Number

(* ---- the members of an object -------------------------------------------- *)
\* the modes open in p, bottom first
modesOf(p) == Live(p).modes

\* the type of the value k places below the top of p's value stack
typeBelow(p, k) ==
  IF p.valueTop - k \in 0..(depth * 3 - 1)
    THEN p.heap[p.valueStack[p.valueTop - k + 1]].jsonType
    ELSE -1

\* the rune the step reads
readNow == input'[Len(input')]

\* what follows the call b, which was in state co, by the rune r read: the
\* call c
afterKey(b, c, r) ==
  /\ peekMode(b.p) = modeKey
  /\ r \in Blanks =>
       /\ c.pc = "loop"
       /\ c.p.state = co
       /\ modesOf(c.p) = modesOf(b.p)
  /\ r = SLASH =>
       /\ c.pc = "loop"
       /\ c.p.state = c1
  /\ r = COLON =>
       /\ c.pc = "loop"
       /\ c.p.state = va
       /\ c.p.modeTop = b.p.modeTop
       /\ modesOf(c.p) = [modesOf(b.p) EXCEPT ![b.p.modeTop + 1] = modeObject]
       /\ typeBelow(c.p, 0) = String
       /\ typeBelow(c.p, 1) = Object
  /\ r \notin (Blanks \cup {SLASH, COLON, IOErrMark}) => isRejected(c)

\* what follows the call b, which was inside a string, when the quote that
\* closes the string is read: the call c
afterClosingQuote(b, c) ==
  /\ c.pc = "loop"
  /\ modesOf(c.p) = modesOf(b.p)
  /\ c.p.state = IF peekMode(b.p) = modeKey THEN co ELSE ok

keyThenColon ==
  (input' # input /\ call.pc = "loop") =>
    /\ (call.p.state = st /\ readNow = QUOTE) => afterClosingQuote(call, call')
    /\ call.p.state = co => afterKey(call, call', readNow)

(* C27: when the quote that closes a string is read with key mode on top of   *)
(* the mode stack the automaton goes to state co, otherwise to ok; in state   *)
(* co, which is held only with key mode on top, a blank keeps the state, a    *)
(* '/' opens a comment, a ':' leads to state va with key mode replaced by     *)
(* object mode at the same depth, the key string on top of the value stack    *)
(* and its object below it, and every other rune and end-of-input are         *)
(* rejected.                                                                  *)
C27_KeyThenColon == [][keyThenColon]_vars

\* {""//<LF>: the colon after a key and a comment
C27_Witness ==
  /\ input = <<LCURB, QUOTE, QUOTE, SLASH, SLASH, LF, COLON>>
  /\ pda.state = va
  /\ peekMode(pda) = modeObject

(* ---- what ends a number ---------------------------------------------------- *)
numberStates == {ze, in, fs, e3}

\* the Value a numeric literal denotes
numberOf(w) ==
  IF hasFracOrExp(w)
    THEN [zeroValue EXCEPT !.jsonType = Number, !.numberValue = ParseFloat(w)]
    ELSE [zeroValue EXCEPT !.jsonType = Integer, !.integerValue = ParseInt(w)]

\* the last Value made in p is where a value just finalised belongs: on top
\* of the stack, or the last child of the container on top of it
lastValuePlaced(p) ==
  LET top == p.heap[topValue(p)]
  IN IF lastRead \in {COMMA, RSQRB, RCURB}
       THEN \/ top.arrayValue # <<>> /\ top.arrayValue[Len(top.arrayValue)] = Len(p.heap)
            \/ top.objectValue # <<>> /\ top.objectValue[Len(top.objectValue)].val = Len(p.heap)
       ELSE topValue(p) = Len(p.heap)

\* the number that ends before the last read began in the call c and was
\* made a Value by the last read
finalisedSince(c) ==
  /\ pda.buffer = <<>>
  /\ Len(pda.heap) = Len(c.p.heap) + 1
  /\ pda.heap[Len(pda.heap)] = numberOf(token)
  /\ lastValuePlaced(pda)

\* two calls that went the same way
sameCourse(a, b) ==
  /\ a.pc = b.pc
  /\ a.pc = "loop" => Live(a.p) = Live(b.p)
  /\ a.pc = "returned" => (a.retErr = noErr) = (b.retErr = noErr) /\ root(a) = root(b)

\* a comment has just ended in the call b and gave the state back to a number
afterNumberAndComment(b) ==
  /\ Len(input) >= 2
  /\ b.pc = "loop"
  /\ b.p.state \in numberStates
  /\ Run(front(front(input))).p.state \in {c2, c4}

(* C28: the value of a numeric literal does not depend on what ends it: a     *)
(* blank, ',', ']', '}' or end-of-input after the literal, if it is not       *)
(* rejected, makes exactly one Value, tagged and valued as the digits say,    *)
(* puts it where it belongs before the container grows or closes, and clears  *)
(* the buffer; and after a literal and a comment every rune is taken as it    *)
(* is after the literal and a blank.                                          *)
C28_NumberTerminators ==
  input # <<>> =>
    /\ (/\ token # <<>>
        /\ IsNumber(token)
        /\ valueExpected(beforeToken)
        /\ lastRead \in {LF, SP, COMMA, RSQRB, RCURB, EOFMark}
        /\ pc # "panicked"
        /\ retErr = noErr) => finalisedSince(beforeToken)
    /\ (afterNumberAndComment(before) /\ lastRead \notin {SLASH, IOErrMark}) =>
         sameCourse(call, ParseNext(ParseNext(before, LF), lastRead))

\* the first half of C28 alone
numberFinalisedAtEnd ==
  (/\ input # <<>>
   /\ token # <<>>
   /\ IsNumber(token)
   /\ valueExpected(beforeToken)
   /\ lastRead \in {LF, SP, COMMA, RSQRB, RCURB, EOFMark}
   /\ pc # "panicked"
   /\ retErr = noErr) => finalisedSince(beforeToken)

(* ---- the shape of the value stack ------------------------------------------ *)
inComment(p) == p.state \in {c1, c2, c3, c4}

\* the state the automaton is in, or the one a comment will give back
resumeState(p) ==
  IF inComment(p) /\ modeInRange(p) THEN p.modeStack[p.modeTop + 1] ELSE p.state

\* how many containers are open: the modes above the root marker, the state
\* a comment saved aside
openCount(p) == IF inComment(p) THEN p.modeTop - 1 ELSE p.modeTop

\* the mode of the j-th open container, outermost first
openMode(p, j) == p.modeStack[j + 1]

\* the entries the j-th open container has on the value stack before its
\* pending value: itself, and for an object whose key was read the key
frameOf(p, j) ==
  IF openMode(p, j) = modeArray THEN <<Array>>
  ELSE IF openMode(p, j) = modeObject THEN <<Object, String>>
  ELSE IF j = openCount(p) /\ resumeState(p) = co THEN <<Object, String>>
  ELSE <<Object>>

RECURSIVE framesUpTo(_, _)
framesUpTo(p, j) == IF j <= 0 THEN <<>> ELSE framesUpTo(p, j - 1) \o frameOf(p, j)

stackTypes(p) == [i \in 1..(p.valueTop + 1) |-> p.heap[p.valueStack[i]].jsonType]

onStack(p) == {p.valueStack[i] : i \in 1..(p.valueTop + 1)}

\* the Values at the positions of the containers of h
heldIn(h) ==
  UNION {{h[a].arrayValue[i] : i \in 1..Len(h[a].arrayValue)}
         \cup {h[a].objectValue[i].val : i \in 1..Len(h[a].objectValue)} : a \in 1..Len(h)}

\* the Values that are neither on the stack nor in a container, apart from
\* the Value the root slot of the stack starts with
adrift(p) == ((2..Len(p.heap)) \ onStack(p)) \ heldIn(p.heap)

\* the stack holds the open containers, the keys read, and at most one more
\* value, on top
onePending(p) ==
  /\ isPrefix(framesUpTo(p, openCount(p)), stackTypes(p))
  /\ Len(stackTypes(p)) <= Len(framesUpTo(p, openCount(p))) + 1

\* every other Value is inside a container, but for the String of each key
\* of a pair already folded
restHeld(p) ==
  /\ \A a \in adrift(p) : p.heap[a].jsonType = String
  /\ Cardinality(adrift(p)) = pairCount(p.heap, Len(p.heap))

(* C29: at every step of a parse that has not failed the value stack holds,   *)
(* bottom up, each open array, each open object with the key of the pair      *)
(* being read if there is one, and on top at most one value not yet folded    *)
(* into its container; every other Value made so far is inside a container   *)
(* (the caller's accessors, which make Values of their own, not yet called).  *)
C29_OnePendingChild ==
  ((pc = "loop" \/ Accepted) /\ nav.path = <<>>) =>
    /\ modeInRange(pda) \/ inComment(pda)
    /\ onePending(pda)
    /\ restHeld(pda)

\* [1,[1<LF>: the outer array holds its first element, the inner array is
\* its pending child and has a pending child of its own
C29_Witness ==
  /\ input = <<LSQRB, ONE, COMMA, LSQRB, ONE, LF>>
  /\ pda.valueTop = 2
  /\ stackTypes(pda) = <<Array, Array, Integer>>
  /\ Len(pda.heap[pda.valueStack[1]].arrayValue) = 1

(* ---- comments ---------------------------------------------------------------- *)
\* the call after the first n reads
upTo(n) == Run(SubSeq(input, 1, n))

\* the read that opened the comment the automaton is in or has just left: the
\* last one that led to state c1
commentStart ==
  CHOOSE j \in 1..Len(input) :
    /\ upTo(j).p.state = c1
    /\ \A k \in (j + 1)..Len(input) : upTo(k).p.state # c1

\* the last read ended a comment: the line feed of a line comment, or the '/'
\* after the '*' of a block comment
commentEnded(b) ==
  /\ b.pc = "loop"
  /\ \/ b.p.state = c2 /\ lastRead = LF
     \/ b.p.state = c4 /\ lastRead = SLASH

\* the last read opened a comment
commentOpened(b) ==
  /\ b.pc = "loop"
  /\ ~inComment(b.p)
  /\ lastRead = SLASH
  /\ pc = "loop"
  /\ pda.state = c1

\* the parser p is the parser q with the state of q pushed as a mode
savedOnModeStack(p, q) ==
  /\ p.modeTop = q.modeTop + 1
  /\ modeInRange(p)
  /\ p.modeStack[p.modeTop + 1] = q.state
  /\ modesOf(q) = SubSeq(modesOf(p), 1, q.modeTop + 1)
  /\ Live(p).values = Live(q).values
  /\ p.buffer = q.buffer

(* C30: a complete comment is invisible: the '/' that opens it pushes the     *)
(* state on the mode stack and changes nothing else, and when the comment     *)
(* ends (at the line feed of a line comment, at the closing '/' of a block    *)
(* comment) the state, the mode stack, the value stack and the buffer are     *)
(* what they were before that '/'.                                            *)
C30_CommentInvisible ==
  input # <<>> =>
    /\ commentOpened(before) => savedOnModeStack(pda, before.p)
    /\ commentEnded(before) =>
         /\ pc = "loop"
         /\ Live(pda) = Live(upTo(commentStart - 1).p)

\* the same where the mode stack had room for the state
commentInvisibleBelowDepth ==
  input # <<>> =>
    /\ (commentOpened(before) /\ before.p.modeTop + 1 < depth) =>
         savedOnModeStack(pda, before.p)
    /\ (commentEnded(before) /\ upTo(commentStart - 1).p.modeTop + 1 < depth) =>
         /\ pc = "loop"
         /\ Live(pda) = Live(upTo(commentStart - 1).p)

(* ---- the height of the mode stack ------------------------------------------- *)
\* where the text is after the rune c, having been in m: one step of lexMode
lexStep(m, c) ==
  IF m = "text" THEN (IF c = QUOTE THEN "string" ELSE IF c = SLASH THEN "slash" ELSE "text")
  ELSE IF m = "slash" THEN
    (IF c = SLASH THEN "line" ELSE IF c = STAR THEN "block"
     ELSE IF c = QUOTE THEN "string" ELSE "text")
  ELSE IF m = "string" THEN
    (IF c = BACKS THEN "escape" ELSE IF c = QUOTE THEN "text" ELSE "string")
  ELSE IF m = "escape" THEN "string"
  ELSE IF m = "line" THEN (IF c = LF THEN "text" ELSE "line")
  ELSE IF m = "block" THEN (IF c = STAR THEN "blockstar" ELSE "block")
  ELSE (IF c = SLASH THEN "text" ELSE IF c = STAR THEN "blockstar" ELSE "block")

\* what the rune c, read in m, adds to the number of open containers
opens(m, c) ==
  IF m # "text" THEN 0
  ELSE IF c \in {LSQRB, LCURB} THEN 1
  ELSE IF c \in {RSQRB, RCURB} THEN 0 - 1
  ELSE 0

commentModes == {"slash", "line", "block", "blockstar"}

\* 1 for the root marker, 1 for each container of s still open, and 1 if s
\* ends inside a comment, s having been scanned up to mode m with height n
RECURSIVE heightBy(_, _, _)
heightBy(s, m, n) ==
  IF s = <<>> THEN (IF m \in commentModes THEN n + 1 ELSE n)
  ELSE IF s[1] = EOFMark THEN n
  ELSE heightBy(Tail(s), lexStep(m, s[1]), n + opens(m, s[1]))

\* the entries of p's mode stack
modeHeight(p) == p.modeTop + 1

modeHeightByText ==
  (pc = "loop" \/ Accepted) =>
    /\ pda.modeStack[1] = modeDone
    /\ modeHeight(pda) = heightBy(input, "text", 1)

\* a step that reads ',' or ':' between tokens and does not fail
separatorStep ==
  /\ input' # input
  /\ call.pc = "loop"
  /\ call'.pc = "loop"
  /\ readNow \in {COMMA, COLON}
  /\ tableLookup(call.p.state, classOf(call.p, readNow)) \in {ep, ek}

(* C31: at every step of a parse that has not failed the bottom of the mode   *)
(* stack is modeDone and the stack's height, modeTop + 1, is 1 plus the       *)
(* number of containers the text has opened and not closed, plus 1 inside a   *)
(* comment; the steps of ',' and ':' (cases ep and ek) leave the height as    *)
(* it was.                                                                    *)
C31_ModeStackHeight ==
  /\ []modeHeightByText
  /\ [][separatorStep => modeHeight(call'.p) = modeHeight(call.p)]_vars

\* [1,/*  one container open, a comma read, a comment begun
C31_Witness ==
  /\ input = <<LSQRB, ONE, COMMA, SLASH, STAR>>
  /\ pc = "loop"
  /\ pda.modeTop = 2
  /\ pda.modeStack[2] = modeArray

(* ---- the literal buffer ------------------------------------------------------ *)
\* the states between tokens
betweenTokens == {sr, ok, ob, ke, co, tc, va, ar}

bufferEmptyBetweenTokens ==
  (pc # "panicked" /\ pda.state \in betweenTokens) => pda.buffer = <<>>

\* a step that does not fail and makes a Value
valueMade ==
  /\ input' # input
  /\ call.pc = "loop"
  /\ call'.pc = "loop" \/ isAccepted(call')
  /\ Len(call'.p.heap) > Len(call.p.heap)

(* C32: the literal buffer is empty whenever the automaton is in one of the   *)
(* states between tokens (sr, ok, ob, ke, co, tc, va, ar), and every step     *)
(* that makes a Value leaves the buffer empty.                                *)
C32_BufferCleared ==
  /\ []bufferEmptyBetweenTokens
  /\ [][valueMade => call'.p.buffer = <<>>]_vars

\* [true, was read: the keyword became a Value and the buffer is empty
C32_Witness ==
  /\ input = <<LSQRB, LOW_T, LOW_R, LOW_U, LOW_E, COMMA>>
  /\ pc = "loop"
  /\ pda.state = tc
  /\ pda.buffer = <<>>
  /\ Len(pda.heap[pda.valueStack[1]].arrayValue) = 1

(* ---- the value stack at the deepest nesting ------------------------------------ *)
\* runes read before end-of-input, enough for depth - 1 objects one in the
\* other, each with its key read, and a value in the innermost
MaxDeepLen == 10
DeepAlphabet == {LCURB, RCURB, LSQRB, RSQRB, QUOTE, COLON, COMMA, ONE}

\* ReadRune returned the rune r; keys are empty and numbers have one digit
ReadDeepRune(r) ==
  /\ Len(input) < MaxDeepLen
  /\ pda.state = st => r = QUOTE
  /\ pda.state = in => r # ONE
  /\ Iterate(r)

NextDeep ==
  \/ \E r \in DeepAlphabet : ReadDeepRune(r)
  \/ ReadEOF

SpecDeep == Init /\ [][NextDeep]_vars

(* C33: for every input the index of the value stack stays inside its array,  *)
(* between -1 and 3 * depth - 1: no push writes past the end and no fold      *)
(* pops below the bottom.                                                     *)
C33_ValueStackInBounds ==
  /\ pda.valueTop >= 0 - 1
  /\ pda.valueTop <= 3 * depth - 1
  /\ pda.panic # "valueStack"

\* depth - 1 objects one in the other, each with its key, and a pending
\* value: the stack at its highest
C33_Witness ==
  /\ pda.modeTop = depth - 1
  /\ \A j \in 1..(depth - 1) : openMode(pda, j) = modeObject
  /\ pda.valueTop = 2 * (depth - 1)
  /\ stackTypes(pda) = <<Object, String, Object, String, String>>
  /\ pda.state = ok
  /\ pc = "loop"

(* ---- one root value -------------------------------------------------------------- *)
\* the root value is complete in the call c: state ok, the root marker alone
\* on the mode stack
rootComplete(c) ==
  /\ c.pc = "loop"
  /\ c.p.state = ok
  /\ c.p.modeTop = 0
  /\ c.p.modeStack[1] = modeDone

afterRoot ==
  (input' # input /\ rootComplete(call)) =>
    /\ readNow \in Blanks => rootComplete(call')
    /\ readNow = SLASH => call'.pc = "loop" /\ call'.p.state = c1
    /\ readNow = EOFMark => isAccepted(call')
    /\ readNow \notin (Blanks \cup {SLASH, EOFMark, IOErrMark}) => isRejected(call')

(* C34: a document has one root value: once the root value is complete       *)
(* (state ok, only modeDone on the mode stack) a blank keeps that state, a    *)
(* '/' opens a comment, end-of-input ends the parse without an error, and     *)
(* every other rune (the start of a second value, a comma, a closing          *)
(* bracket) makes Parse fail with a parse error.                              *)
C34_OneRootValue == [][afterRoot]_vars

\* [] was read, then a comma
C34_Witness ==
  /\ input = <<LSQRB, RSQRB, COMMA>>
  /\ Rejected

(* ---- the code point U+FFFD ----------------------------------------------------- *)
\* U+FFFD in UTF-8
encodedReplacement == <<239, 191, 189>>

\* ReadRune gives U+FFFD three bytes wide for its encoding and one byte wide
\* for a byte that is no encoding
replacementDecoded ==
  /\ decodeFront(encodedReplacement) = [r |-> ReplacementChar, size |-> 3]
  /\ decodeFront(<<191>>) = [r |-> ReplacementChar, size |-> 1]

noReplacementAccepted ==
  /\ replacementDecoded
  /\ Accepted => \A i \in 1..Len(input) : input[i] # ReplacementChar

\* the step reads the rune U+FFFD, well encoded
replacementRead ==
  /\ input' # input
  /\ call.pc = "loop"
  /\ readNow = ReplacementChar

(* C35: U+FFFD is rejected wherever it is read, well encoded or not, inside   *)
(* a string literal or a comment as anywhere else: Parse returns the          *)
(* invalid-UTF-8 parse error at the position of the code point, and no        *)
(* document that contains it is accepted.                                     *)
C35_ReplacementRejected ==
  /\ []noReplacementAccepted
  /\ [][replacementRead =>
          /\ isRejected(call')
          /\ call'.retErr = ErrParseAt("invalid UTF-8 character", call.p.pos)]_vars

\* [" then U+FFFD: the code point inside a string literal
C35_Witness ==
  /\ input = <<LSQRB, QUOTE, ReplacementChar>>
  /\ before.p.state = st
  /\ Rejected
  /\ retErr = ErrParseAt("invalid UTF-8 character", 2)

(* ---- integers out of range ------------------------------------------------- *)
\* the bounds of the signed integers of bitSize bits
maxInt == 2^(bitSize - 1) - 1
minInt == 0 - 2^(bitSize - 1)

\* the digits d, with no leading zero, say more than the digits lim
exceeds(d, lim) ==
  \/ Len(d) > Len(lim)
  \/ /\ Len(d) = Len(lim)
     /\ \E i \in 1..Len(d) : d[i] > lim[i] /\ \A j \in 1..(i - 1) : d[j] = lim[j]

\* the integer literal w denotes a value outside the signed range
outOfRange(w) ==
  IF w[1] = MINUS THEN exceeds(Tail(w), formatBits(2^(bitSize - 1)))
  ELSE exceeds(w, formatBits(maxInt))

\* the bound nearest to the value of w
nearestBound(w) == IF w[1] = MINUS THEN minInt ELSE maxInt

\* the rune r may follow a value in p
endsValue(p, r) ==
  IF modeInRange(p) /\ peekMode(p) = modeArray THEN r \in {SP, COMMA, RSQRB}
  ELSE IF modeInRange(p) /\ peekMode(p) = modeObject THEN r \in {SP, COMMA, RCURB}
  ELSE r \in {SP, EOFMark}

\* the step ends an integer literal out of range where a value may end
bigIntegerEnds ==
  /\ input' # input
  /\ call.pc = "loop"
  /\ call.p.state \in {ze, in}
  /\ token' # <<>>
  /\ IsNumber(token')
  /\ ~hasFracOrExp(token')
  /\ outOfRange(token')
  /\ endsValue(call.p, readNow)

\* the last Value made in p is v and is where a value that r ends belongs: on
\* top of the stack, or the last child of the container on top of it
placedLast(p, r, v) ==
  /\ p.heap[Len(p.heap)] = v
  /\ IF r \in {COMMA, RSQRB, RCURB}
       THEN \/ p.heap[topValue(p)].arrayValue # <<>>
               /\ p.heap[topValue(p)].arrayValue[Len(p.heap[topValue(p)].arrayValue)] = Len(p.heap)
            \/ p.heap[topValue(p)].objectValue # <<>>
               /\ p.heap[topValue(p)].objectValue[Len(p.heap[topValue(p)].objectValue)].val = Len(p.heap)
       ELSE topValue(p) = Len(p.heap)

bigIntegerSaturated ==
  /\ call.p.buffer = token'
  /\ strconvParseInt(token').err = "range"
  /\ call'.pc # "panicked"
  /\ call'.retErr = noErr
  /\ call'.p.buffer = <<>>
  /\ Len(call'.p.heap) = Len(call.p.heap) + 1
  /\ placedLast(call'.p, readNow,
                [zeroValue EXCEPT !.jsonType = Integer, !.integerValue = nearestBound(token')])

(* C36: an integer literal whose value lies outside the signed range of       *)
(* bitSize bits is accepted without any error, although the conversion        *)
(* reports the range error, and makes one Value tagged Integer that holds     *)
(* the nearest bound, the largest integer for a positive literal and the      *)
(* smallest for a negative one.                                               *)
C36_IntegerSaturates == [][bigIntegerEnds => bigIntegerSaturated]_vars

\* [99999999] was read: the array holds the largest integer
C36_Witness ==
  /\ input = <<LSQRB, NINE, NINE, NINE, NINE, NINE, NINE, NINE, NINE, RSQRB>>
  /\ pc = "loop"
  /\ Type(pda.heap[pda.heap[pda.valueStack[1]].arrayValue[1]]) = Integer
  /\ pda.heap[pda.heap[pda.valueStack[1]].arrayValue[1]].integerValue = maxInt

(* ---- the map of an Object with a repeated key -------------------------------- *)
\* AsObject was called on the Object t that Parse returned
mapTaken(t) ==
  /\ pc = "returned" /\ retErr = noErr
  /\ nav.path = <<>>
  /\ nav.got.op = "AsObject"
  /\ t.jsonType = Object

\* the keys of the pairs of t
keysOf(t) == {t.objectValue[n].key : n \in 1..Len(t.objectValue)}

\* the pair n of t is the last one with its key
isLastOfKey(t, n) ==
  \A m \in (n + 1)..Len(t.objectValue) : t.objectValue[m].key # t.objectValue[n].key

\* some key of t has several pairs
hasRepeatedKey(t) == \E n \in 1..Len(t.objectValue) : ~isLastOfKey(t, n)

(* C37: the map AsObject returns for an Object holds exactly one entry for    *)
(* each distinct key of its pairs, and the entry of a key, repeated or not,   *)
(* is the value of the last pair with that key in insertion order.            *)
C37_AsObjectLastPairWins ==
  mapTaken(parsedTree) =>
    /\ nav.got.err = noErr
    /\ ~nav.got.val.isNil
    /\ DOMAIN nav.got.val.entries = keysOf(parsedTree)
    /\ \A n \in 1..Len(parsedTree.objectValue) :
         isLastOfKey(parsedTree, n) =>
           Tree(pda.heap, nav.got.val.entries[parsedTree.objectValue[n].key]) =
             parsedTree.objectValue[n].val

\* {"":1,"a":1,"":""} gave a map of two entries, "" being the string
C37_Witness ==
  /\ mapTaken(parsedTree)
  /\ hasRepeatedKey(parsedTree)
  /\ Len(parsedTree.objectValue) = 3
  /\ Cardinality(DOMAIN nav.got.val.entries) = 2
  /\ parsedTree.objectValue[1].key = <<>>
  /\ parsedTree.objectValue[1].val.jsonType = Integer
  /\ pda.heap[nav.got.val.entries[<<>>]].jsonType = String

====
